---- MODULE Spec2Model ----
(***************************************************************************)
(* Verification model of the ASN.1 processor core:                         *)
(*   - backend/core/manager.py       (AsnManager, the protocol registry)   *)
(*   - backend/core/converter.py     (convert_to_python_asn1)              *)
(*   - backend/core/serialization.py (deserialize/serialize_asn1_data)     *)
(*   - backend/core/tracer.py        (TraceCollector, TraceService)        *)
(* Each component has its own specification over its own variables; the    *)
(* variables of the other components stay at their initial values.         *)
(***************************************************************************)
EXTENDS Integers, Sequences, FiniteSets, TLC

(***************************************************************************)
(* Bounds                                                                  *)
(***************************************************************************)
MaxEdits == 2
MaxTime == 2
MaxStrLen == 3

(***************************************************************************)
(* Generic dict helpers (Python dict semantics, order ignored)             *)
(***************************************************************************)
EmptyDict == << >>
Put(m, k, v) == [x \in (DOMAIN m) \cup {k} |-> IF x = k THEN v ELSE m[x]]
Get(m, k) == IF k \in DOMAIN m THEN {m[k]} ELSE {}

(***************************************************************************)
(* REGISTRY: the file system the registry scans                            *)
(***************************************************************************)
\* Configured locations: an explicit schema file and a directory.
FileLoc == "pf.asn"
DirLoc == "pd"
Locs == {FileLoc, DirLoc}
Subdirs == {"alpha", "beta"}

\* os.path.splitext(os.path.basename(location))
LocStem == [l \in Locs |-> IF l = FileLoc THEN "pf" ELSE "pd"]
LocExt == [l \in Locs |-> IF l = FileLoc THEN ".asn" ELSE ""]

\* A path: the location it lies under, the first-level subdirectory ("" for
\* the top level) and the file's stem and extension ("" for a directory or
\* for the location itself).
Path(root, sub, stem, ext) == [root |-> root, sub |-> sub, stem |-> stem, ext |-> ext]
LocPath(l) == Path(l, "", IF l = FileLoc THEN LocStem[l] ELSE "", LocExt[l])
SubPath(s) == Path(DirLoc, s, "", "")
TopAsn == Path(DirLoc, "", "top", ".asn")
SubAsn(s) == Path(DirLoc, s, s, ".asn")
AlphaJson == Path(DirLoc, "alpha", "ex", ".json")

DirPaths == {LocPath(DirLoc)} \cup {SubPath(s) : s \in Subdirs}
FilePaths == {LocPath(FileLoc), TopAsn, AlphaJson} \cup {SubAsn(s) : s \in Subdirs}
AllPaths == DirPaths \cup FilePaths

\* The directory an entry lives in (the location file has none in the model).
ParentDirs(p) ==
    IF p \in FilePaths /\ p.root = DirLoc
    THEN (IF p.sub = "" THEN {LocPath(DirLoc)} ELSE {SubPath(p.sub)})
    ELSE IF p \in DirPaths /\ p.sub # "" THEN {LocPath(DirLoc)} ELSE {}

AppConfig_asn_extensions == {".asn", ".asn1"}

VARIABLES
    disk,                 \* path -> [ex, st, ok]: exists, stat (mtime,size), content compiles/parses
    edits,                \* number of file system edits so far (source of fresh stats)
    now,                  \* time.monotonic()
    specs_directories,    \* config.specs_directories
    compilers,            \* AsnManager.compilers
    metadata,             \* AsnManager.metadata
    examples,             \* AsnManager.examples
    current_paths,        \* AsnManager._current_paths
    snapshot_state,       \* AsnManager._snapshot_state
    last_snapshot_check,  \* AsnManager._last_snapshot_check
    snapshot_interval,    \* AsnManager._snapshot_interval
    pending,              \* {} or {the locals of a _load_protocols_locked call before line 347}
    ret,                  \* the last completed registry call, the branch it took and its result
    last_load             \* history: the call that ran the last completed load, and when

regVars == <<disk, edits, now, specs_directories, compilers, metadata, examples,
             current_paths, snapshot_state, last_snapshot_check, snapshot_interval,
             pending, ret, last_load>>

VARIABLES
    conv                  \* one Value Converter call: [pc, data, type, out]

convVars == <<conv>>

VARIABLES
    decodeAttr,           \* codec class -> its own "decode" attribute, if it has one
    _INSTRUMENTED,        \* tracer module flag
    _collector_ctx,       \* context slot -> active collector ("none" is None)
    collectors,           \* the TraceCollector each thread's trace() created
    inst,                 \* thread -> position in TraceService() / _ensure_instrumented
    thr                   \* thread -> position in trace() / decode and its call stack

trVars == <<decodeAttr, _INSTRUMENTED, _collector_ctx, collectors, inst, thr>>

VARIABLES
    walk                  \* one build_type_tree call: its type graph, call stack, visited set

walkVars == <<walk>>

VARIABLES
    sequence,             \* one MscSequence: its messages and tracked identifiers
    replay,               \* one ValidateSequenceUseCase.execute call and its results
    repo                  \* one MscRepository: its files, its index and the last call

mscVars == <<sequence, replay, repo>>

\* What each component's actions leave alone
nonRegVars == <<convVars, trVars, walkVars, mscVars>>
nonConvVars == <<regVars, trVars, walkVars, mscVars>>
nonTrVars == <<regVars, convVars, walkVars, mscVars>>
nonWalkVars == <<regVars, convVars, trVars, mscVars>>
nonMscVars == <<regVars, convVars, trVars, walkVars>>

vars == <<regVars, convVars, trVars, walkVars, mscVars>>

isfile(p) == p \in FilePaths /\ disk[p].ex
isdir(p) == p \in DirPaths /\ disk[p].ex
exists(p) == disk[p].ex

Range(s) == {s[i] : i \in DOMAIN s}

\* AsnManager.__init__: self._snapshot_interval = 2.0
SnapshotInterval == 2

(***************************************************************************)
(* REGISTRY: helpers of AsnManager                                         *)
(***************************************************************************)
\* _resolve_specs_paths with absolute configured paths: the existing ones, in order
_resolve_specs_paths == SelectSeq(specs_directories, LAMBDA l : exists(LocPath(l)))

_stat_entry(p) == IF disk[p].ex THEN disk[p].st ELSE 0

tracked_extensions == AppConfig_asn_extensions \cup {".json"}

\* The keys _capture_snapshot records for one location.
SnapshotKeysOf(l) ==
    IF isfile(LocPath(l)) THEN {LocPath(l)}
    ELSE IF ~isdir(LocPath(l)) THEN {}
    ELSE {LocPath(l)} \cup
         UNION { {q} \cup {f \in FilePaths : /\ f.root = l /\ f.sub = q.sub
                                             /\ isfile(f)
                                             /\ f.ext \in tracked_extensions}
                 : q \in {d \in DirPaths : d.root = l /\ d.sub # "" /\ isdir(d)} }

_capture_snapshot(paths) ==
    [p \in UNION {SnapshotKeysOf(l) : l \in Range(paths)} |-> _stat_entry(p)]

\* glob(os.path.join(dir, "*" + ext)) for the extensions in exts
GlobFiles(l, sub, exts) ==
    {f \in FilePaths : f.root = l /\ l = DirLoc /\ f.sub = sub /\ isfile(f) /\ f.ext \in exts}

\* asn1tools.compile_files: fails when some file does not compile; the handle
\* is identified by the contents (path and stat) it was compiled from.
CompileOk(files) == \A f \in files : disk[f].ok
Handle(protocol, files) ==
    [name |-> protocol, src |-> {[path |-> f, st |-> disk[f].st] : f \in files}]
\* Mutant: the failure carries an empty message
CompileError_Empty == ""

\* str(e) of the compile failure (lines 240, 291, 337)
CompileError == "compile error"

ProtocolMetadata(name, files, types, is_bundled) ==
    [name |-> name, files |-> files, types |-> types, is_bundled |-> is_bundled]

\* sorted(compiler.types.keys()): determined by the compiled contents
TypeNames(h) == h.src

\* os.path.basename / os.path.relpath(path, specs_dir)
Basename(f) == [sub |-> "", stem |-> f.stem, ext |-> f.ext]
Relpath(f) == [sub |-> f.sub, stem |-> f.stem, ext |-> f.ext]

BundledDir == DirLoc

\* "Load JSON examples": one entry per parsable *.json file, keyed by stem
LoadExamples(l, sub) ==
    LET good == {f \in GlobFiles(l, sub, {".json"}) : disk[f].ok}
    IN  [n \in {f.stem : f \in good} |->
            LET f == CHOOSE g \in good : g.stem = n IN [path |-> f, st |-> disk[f].st]]

\* new_compilers, new_metadata, new_examples, errors at the start of a load
NewState == [comp |-> EmptyDict, meta |-> EmptyDict, ex |-> EmptyDict, err |-> EmptyDict]

\* The registry maps a load can fall back on (self.compilers, self.metadata, self.examples)
Self == [comp |-> compilers, meta |-> metadata, ex |-> examples]
NoSelf == [comp |-> EmptyDict, meta |-> EmptyDict, ex |-> EmptyDict]

\* new_examples[protocol] = loaded_examples, only when some example loaded
WithExamples(acc, protocol, loaded) ==
    IF DOMAIN loaded # {} THEN [acc EXCEPT !.ex = Put(@, protocol, loaded)] ELSE acc

\* lines 222-242: explicit single schema file
LoadFileProtocol(self, acc, l) ==
    LET protocol == LocStem[l]
        files == {LocPath(l)}
    IN  IF CompileOk(files)
        THEN [acc EXCEPT
                !.comp = Put(@, protocol, Handle(protocol, files)),
                !.meta = Put(@, protocol,
                             ProtocolMetadata(protocol, {Basename(f) : f \in files},
                                              TypeNames(Handle(protocol, files)), FALSE))]
        ELSE [acc EXCEPT !.err = Put(@, protocol, CompileError)]

\* lines 252-292: directory whose top level holds schema files
LoadDirectProtocol(self, acc, l) ==
    LET protocol == LocStem[l]
        direct_asn_files == GlobFiles(l, "", AppConfig_asn_extensions)
    IN  IF direct_asn_files = {} THEN acc
        ELSE IF CompileOk(direct_asn_files)
        THEN WithExamples(
               [acc EXCEPT
                  !.comp = Put(@, protocol, Handle(protocol, direct_asn_files)),
                  !.meta = Put(@, protocol,
                               ProtocolMetadata(protocol, {Basename(f) : f \in direct_asn_files},
                                                TypeNames(Handle(protocol, direct_asn_files)),
                                                l = BundledDir))],
               protocol, LoadExamples(l, ""))
        ELSE [acc EXCEPT !.err = Put(@, protocol, CompileError)]

\* Mutant: a failure falls back on the whole previous registry
RetainPrevious_WholeRegistry(self, acc, protocol) ==
    IF protocol \in DOMAIN self.comp
    THEN [acc EXCEPT !.comp = self.comp, !.meta = self.meta, !.ex = self.ex]
    ELSE acc

\* Mutant: a failed protocol keeps its previous handle but not its metadata
RetainPrevious_HandleOnly(self, acc, protocol) ==
    IF protocol \in DOMAIN self.comp
    THEN [acc EXCEPT !.comp = Put(@, protocol, self.comp[protocol])]
    ELSE acc

\* lines 339-345: "Retain old version if available"
RetainPrevious(self, acc, protocol) ==
    IF protocol \in DOMAIN self.comp
    THEN LET kept == [acc EXCEPT !.comp = Put(@, protocol, self.comp[protocol]),
                                 !.meta = Put(@, protocol, self.meta[protocol])]
         IN  IF protocol \in DOMAIN self.ex
             THEN [kept EXCEPT !.ex = Put(@, protocol, self.ex[protocol])]
             ELSE kept
    ELSE acc

\* lines 308-335: the new handle, metadata and examples of a subdirectory protocol
SubdirCompiled(acc, l, protocol, asn_files) ==
    WithExamples(
      [acc EXCEPT
         !.comp = Put(@, protocol, Handle(protocol, asn_files)),
         !.meta = Put(@, protocol,
                      ProtocolMetadata(protocol, {Relpath(f) : f \in asn_files},
                                       TypeNames(Handle(protocol, asn_files)),
                                       l = BundledDir))],
      protocol, LoadExamples(l, protocol))

\* Mutant: a protocol already in the registry is never recompiled
LoadSubdirProtocol_KeepsCached(self, acc, l, protocol) ==
    LET asn_files == GlobFiles(l, protocol, AppConfig_asn_extensions)
    IN  IF asn_files = {} THEN acc
        ELSE IF protocol \in DOMAIN self.comp THEN RetainPrevious(self, acc, protocol)
        ELSE IF CompileOk(asn_files) THEN SubdirCompiled(acc, l, protocol, asn_files)
        ELSE [acc EXCEPT !.err = Put(@, protocol, CompileError)]

\* lines 298-345: one first-level subdirectory
LoadSubdirProtocol(self, acc, l, protocol) ==
    LET asn_files == GlobFiles(l, protocol, AppConfig_asn_extensions)
    IN  IF asn_files = {} THEN acc
        ELSE IF CompileOk(asn_files) THEN SubdirCompiled(acc, l, protocol, asn_files)
        ELSE RetainPrevious(self, [acc EXCEPT !.err = Put(@, protocol, CompileError)], protocol)

RECURSIVE LoadSubdirs(_, _, _, _)
LoadSubdirs(self, acc, l, subdirs) ==
    IF subdirs = << >> THEN acc
    ELSE LoadSubdirs(self, LoadSubdirProtocol(self, acc, l, Head(subdirs)), l, Tail(subdirs))

\* One iteration of "for specs_path in search_paths"; subdirs is os.listdir's order
\* Mutant: a location that is neither file nor directory is reported as an error
LoadLocation_MissingIsError(self, acc, l, subdirs) ==
    IF isfile(LocPath(l)) /\ LocExt[l] \in AppConfig_asn_extensions
    THEN LoadFileProtocol(self, acc, l)
    ELSE IF ~isdir(LocPath(l)) THEN [acc EXCEPT !.err = Put(@, LocStem[l], CompileError)]
    ELSE LoadSubdirs(self, LoadDirectProtocol(self, acc, l), l, subdirs)

\* lines 219-345: one configured location
LoadLocation(self, acc, l, subdirs) ==
    IF isfile(LocPath(l)) /\ LocExt[l] \in AppConfig_asn_extensions
    THEN LoadFileProtocol(self, acc, l)
    ELSE IF ~isdir(LocPath(l)) THEN acc
    ELSE LoadSubdirs(self, LoadDirectProtocol(self, acc, l), l, subdirs)

RECURSIVE ScanPaths(_, _, _, _)
ScanPaths(self, acc, search_paths, subdirs) ==
    IF search_paths = << >> THEN acc
    ELSE ScanPaths(self, LoadLocation(self, acc, Head(search_paths), subdirs),
                   Tail(search_paths), subdirs)

\* The orders os.listdir can report the existing first-level subdirectories in
ListdirOrders ==
    LET present == {s \in Subdirs : isdir(SubPath(s))}
    IN  {o \in UNION {[1..n -> present] : n \in 0..Cardinality(Subdirs)} :
            /\ Len(o) = Cardinality(present)
            /\ \A i, j \in DOMAIN o : i # j => o[i] # o[j]}

(***************************************************************************)
(* REGISTRY: what one scan meets on disk, protocol by protocol             *)
(***************************************************************************)
Protocols == {LocStem[l] : l \in Locs} \cup Subdirs

\* The three discovery shapes
ShapeOf(P) == IF P = LocStem[FileLoc] THEN "file"
              ELSE IF P = LocStem[DirLoc] THEN "direct" ELSE "subdir"
LocOf(P) == IF P = LocStem[FileLoc] THEN FileLoc ELSE DirLoc

\* The schema files a scan of search_paths hands to compile_files for protocol P
SourceFiles(P, search_paths) ==
    IF LocOf(P) \notin Range(search_paths) THEN {}
    ELSE IF ShapeOf(P) = "file"
         THEN {f \in {LocPath(FileLoc)} : isfile(f) /\ f.ext \in AppConfig_asn_extensions}
    ELSE IF ~isdir(LocPath(DirLoc)) THEN {}
    ELSE IF ShapeOf(P) = "direct" THEN GlobFiles(DirLoc, "", AppConfig_asn_extensions)
    ELSE IF isdir(SubPath(P)) THEN GlobFiles(DirLoc, P, AppConfig_asn_extensions) ELSE {}

\* What compile_files and the metadata constructor yield for protocol P when
\* its schema files compile, by discovery shape
CompiledFrom(P, files) ==
    [comp |-> Handle(P, files),
     meta |-> ProtocolMetadata(P,
                {IF ShapeOf(P) = "subdir" THEN Relpath(f) ELSE Basename(f) : f \in files},
                TypeNames(Handle(P, files)),
                ShapeOf(P) # "file" /\ LocOf(P) = BundledDir)]

\* The record of one scan: every protocol whose schema files were handed to
\* compile_files, whether the call returned (ok) and what was compiled.
ScanRecord(search_paths) ==
    [P \in {Q \in Protocols : SourceFiles(Q, search_paths) # {}} |->
        [ok |-> CompileOk(SourceFiles(P, search_paths)),
         from |-> CompiledFrom(P, SourceFiles(P, search_paths))]]

(***************************************************************************)
(* REGISTRY: operations                                                    *)
(***************************************************************************)
\* config.specs_directories: the schema file location, then the directory
ConfigDirs == <<FileLoc, DirLoc>>

ResolvePaths(dirs) == SelectSeq(dirs, LAMBDA l : exists(LocPath(l)))

\* The value each read returns from the registry maps (lines 356-386)
Result(op, arg, comp, meta, ex) ==
    CASE op = "get_compiler" -> Get(comp, arg)
      [] op = "list_protocols" -> DOMAIN comp
      [] op = "get_protocol_metadata" -> Get(meta, arg)
      [] op = "list_metadata" -> {meta[k] : k \in DOMAIN meta}
      [] op = "get_examples" -> IF arg \in DOMAIN ex THEN ex[arg] ELSE EmptyDict

\* ret while a call is running
InCall == [op |-> "", branch |-> "", errors |-> EmptyDict]

\* _load_protocols_locked up to line 346: scan and compile into the new maps
BeginLoad(op, search_paths) ==
    \E o \in ListdirOrders :
        pending' = {[op |-> op, paths |-> search_paths,
                     acc |-> ScanPaths(Self, NewState, search_paths, o),
                     scan |-> ScanRecord(search_paths)]}

\* Mutant: a read hands the error map of the load it ran to its caller
ReturnedErrors_FromRead(op, errors) == errors

\* The error map the calling operation hands to its caller: load_protocols and
\* reload return it (lines 164, 365); _ensure_latest_locked drops the value
\* of the load it runs (line 158), so a reader returns its lookup only
ReturnedErrors(op, errors) == IF op = "read" THEN EmptyDict ELSE errors

\* _load_protocols_locked lines 347-354, and the return of the calling operation
FinishLoad ==
    \E p \in pending :
        /\ compilers' = p.acc.comp
        /\ metadata' = p.acc.meta
        /\ examples' = p.acc.ex
        /\ current_paths' = p.paths
        /\ snapshot_state' = _capture_snapshot(p.paths)
        /\ last_snapshot_check' = now
        /\ pending' = {}
        /\ ret' = [op |-> p.op, branch |-> "loaded",
                   errors |-> ReturnedErrors(p.op, p.acc.err)]
        /\ last_load' = [op |-> p.op, scan |-> p.scan, snap_edits |-> edits]
        /\ UNCHANGED <<nonRegVars, disk, edits, now, specs_directories, snapshot_interval>>

load_protocols ==
    /\ pending = {}
    /\ BeginLoad("load_protocols", _resolve_specs_paths)
    /\ ret' = InCall
    /\ UNCHANGED <<nonRegVars, disk, edits, now, specs_directories, compilers, metadata, examples,
                   current_paths, snapshot_state, last_snapshot_check, snapshot_interval,
                   last_load>>

\* reload(): config_manager.reload() re-reads the (unchanged) configuration
\* file, then a load runs over the re-resolved paths
reload ==
    /\ pending = {}
    /\ specs_directories' = specs_directories
    /\ BeginLoad("reload", ResolvePaths(specs_directories'))
    /\ ret' = InCall
    /\ UNCHANGED <<nonRegVars, disk, edits, now, compilers, metadata, examples,
                   current_paths, snapshot_state, last_snapshot_check, snapshot_interval,
                   last_load>>

\* Mutant: the staleness check runs at every read
Throttled_Never == FALSE

\* _ensure_latest_locked line 151
Throttled == now - last_snapshot_check < snapshot_interval
\* line 154
CheckPaths == IF current_paths # << >> THEN current_paths ELSE _resolve_specs_paths

\* A read: _ensure_latest_locked, then the lookup in the registry maps.  The
\* five readers differ only in the lookup, which does not influence the
\* registry: ret records that a read completed and the branch it took, and the
\* value reader op returns for key arg is Returned(op, arg) in the state the
\* read completes in.
Read ==
    /\ pending = {}
    /\ \/ /\ Throttled
          /\ ret' = [op |-> "read", branch |-> "throttled", errors |-> EmptyDict]
          /\ UNCHANGED <<last_snapshot_check, pending>>
       \/ /\ ~Throttled
          /\ _capture_snapshot(CheckPaths) = snapshot_state
          /\ last_snapshot_check' = now
          /\ ret' = [op |-> "read", branch |-> "unchanged", errors |-> EmptyDict]
          /\ UNCHANGED pending
       \/ /\ ~Throttled
          /\ _capture_snapshot(CheckPaths) # snapshot_state
          /\ BeginLoad("read", CheckPaths)
          /\ ret' = InCall
          /\ UNCHANGED last_snapshot_check
    /\ UNCHANGED <<nonRegVars, disk, edits, now, specs_directories, compilers, metadata, examples,
                   current_paths, snapshot_state, snapshot_interval, last_load>>

get_compiler == Read
list_protocols == Read
get_protocol_metadata == Read
list_metadata == Read
get_examples == Read

\* The value the last completed read returned for key arg
Returned(op, arg) == Result(op, arg, compilers, metadata, examples)

(***************************************************************************)
(* REGISTRY: environment (file system edits, passage of time)              *)
(***************************************************************************)
Stamp(p, ex, ok) == [ex |-> ex, st |-> edits + 1, ok |-> ok]

\* Rewrite an existing file in place: only the file's own stat changes
EditModify ==
    /\ edits < MaxEdits
    /\ \E f \in FilePaths, ok \in BOOLEAN :
          /\ disk[f].ex
          /\ disk' = [disk EXCEPT ![f] = Stamp(f, TRUE, ok)]
    /\ edits' = edits + 1
    /\ UNCHANGED <<nonRegVars, now, specs_directories, compilers, metadata, examples, current_paths,
                   snapshot_state, last_snapshot_check, snapshot_interval, pending, ret,
                   last_load>>

\* Unlink a file: the entry goes and the containing directory's mtime changes
EditRemove ==
    /\ edits < MaxEdits
    /\ \E f \in FilePaths :
          /\ disk[f].ex
          /\ disk' = [p \in AllPaths |->
                        IF p = f THEN Stamp(p, FALSE, disk[p].ok)
                        ELSE IF p \in ParentDirs(f) THEN Stamp(p, TRUE, TRUE)
                        ELSE disk[p]]
    /\ edits' = edits + 1
    /\ UNCHANGED <<nonRegVars, now, specs_directories, compilers, metadata, examples, current_paths,
                   snapshot_state, last_snapshot_check, snapshot_interval, pending, ret,
                   last_load>>

\* Create a file (and its subdirectory when missing): the containing
\* directory's mtime changes, and the parent's when the subdirectory is new
EditCreate ==
    /\ edits < MaxEdits
    /\ \E f \in FilePaths, ok \in BOOLEAN :
          /\ ~disk[f].ex
          /\ disk' = [p \in AllPaths |->
                        IF p = f THEN Stamp(p, TRUE, ok)
                        ELSE IF p \in ParentDirs(f) THEN Stamp(p, TRUE, TRUE)
                        ELSE IF /\ \E d \in ParentDirs(f) : ~disk[d].ex /\ p \in ParentDirs(d)
                             THEN Stamp(p, TRUE, TRUE)
                        ELSE disk[p]]
    /\ edits' = edits + 1
    /\ UNCHANGED <<nonRegVars, now, specs_directories, compilers, metadata, examples, current_paths,
                   snapshot_state, last_snapshot_check, snapshot_interval, pending, ret,
                   last_load>>

Tick ==
    /\ now < MaxTime
    /\ now' = now + 1
    /\ UNCHANGED <<nonRegVars, disk, edits, specs_directories, compilers, metadata, examples,
                   current_paths, snapshot_state, last_snapshot_check, snapshot_interval,
                   pending, ret, last_load>>

(***************************************************************************)
(* REGISTRY: initial state = AsnManager() constructed over the initial disk*)
(***************************************************************************)
\* alpha, the top-level schema and the schema file location exist and compile;
\* subdirectory beta does not exist yet.
InitDisk == [p \in AllPaths |-> [ex |-> p.sub # "beta", st |-> 0, ok |-> TRUE]]

RegStart ==
    /\ disk = InitDisk
    /\ edits = 0
    /\ now = 0
    /\ specs_directories = ConfigDirs
    /\ snapshot_interval = SnapshotInterval
    /\ pending = {}
    /\ current_paths = _resolve_specs_paths
    /\ \E o \in ListdirOrders :
          LET st == ScanPaths(NoSelf, NewState, _resolve_specs_paths, o)
          IN  /\ compilers = st.comp
              /\ metadata = st.meta
              /\ examples = st.ex
              /\ ret = [op |-> "load_protocols", branch |-> "loaded", errors |-> st.err]
    /\ snapshot_state = _capture_snapshot(current_paths)
    /\ last_snapshot_check = now
    /\ last_load = [op |-> "load_protocols", scan |-> ScanRecord(current_paths),
                    snap_edits |-> 0]

RegNext ==
    \/ load_protocols
    \/ reload
    \/ get_compiler
    \/ list_protocols
    \/ get_protocol_metadata
    \/ list_metadata
    \/ get_examples
    \/ FinishLoad
    \/ EditModify
    \/ EditRemove
    \/ EditCreate
    \/ Tick

\* The converter is idle while the registry runs
ConvIdle == [pc |-> "idle", data |-> << >>, type |-> "", out |-> << >>]

\* No build_type_tree call is running
NoWalk == [pc |-> "idle"]

\* No MSC sequence, validation or repository exists
NoSequence == [pc |-> "idle"]
NoReplay == [pc |-> "idle"]
NoRepo == [pc |-> "idle"]
MscIdle == sequence = NoSequence /\ replay = NoReplay /\ repo = NoRepo

(***************************************************************************)
(* TRACER: codec classes as imported, before any TraceService exists       *)
(***************************************************************************)
Threads == {"t1", "t2"}

\* inspect.getmembers(per_codec, inspect.isclass) yields classes sorted by name
ClassOrder == <<"IA5String", "KnownMultiplierStringType", "OctetString", "Sequence", "Set">>
Classes == Range(ClassOrder)
\* Classes that define no decode of their own inherit their base class's
Base == [c \in {"IA5String", "Set"} |->
            IF c = "IA5String" THEN "KnownMultiplierStringType" ELSE "Sequence"]

\* A decode function: the class that defined the original and the number of
\* wrap_decode layers around it
Fn(c, n) == [own |-> TRUE, fn |-> c, wraps |-> n]
NoAttr == [own |-> FALSE, fn |-> "", wraps |-> 0]
ImportedDecode == [c \in Classes |-> IF c \in DOMAIN Base THEN NoAttr ELSE Fn(c, 0)]

NoRet == [k |-> "noret", v |-> 0]
NoCollector == [stack |-> << >>, root |-> << >>, total_bits |-> 0, next |-> 1]
NoRequest == [mode |-> "", protocol |-> "", type_name |-> "", hex_data |-> NoRet]
ThreadIdle ==
    [pc |-> "idle", req |-> NoRequest, payload |-> << >>, pos |-> 0, stack |-> << >>,
     ret |-> NoRet, token |-> "none", result |-> NoRet]
InstIdle == [pc |-> "out", i |-> 0, decode |-> NoAttr, svc |-> FALSE, full |-> FALSE, n |-> 0]

\* No TraceService has been constructed and nothing is being decoded
TracerIdle ==
    /\ decodeAttr = ImportedDecode
    /\ _INSTRUMENTED = FALSE
    /\ _collector_ctx = [t \in Threads |-> "none"]
    /\ collectors = [t \in Threads |-> NoCollector]
    /\ inst = [t \in Threads |-> InstIdle]
    /\ thr = [t \in Threads |-> ThreadIdle]

RegInit == RegStart /\ conv = ConvIdle /\ TracerIdle /\ walk = NoWalk /\ MscIdle

SpecRegistry == RegInit /\ [][RegNext]_vars

(***************************************************************************)
(* REGISTRY: properties                                                    *)
(***************************************************************************)
\* The step that completes a load
LoadCompletes(p) == p \in pending /\ pending' = {}
Failed(p) == {P \in DOMAIN p.scan : ~p.scan[P].ok}
Succeeded(p) == {P \in DOMAIN p.scan : p.scan[P].ok}

\* C1: every protocol that is in the registry before a load, whose schema
\* files are still found and whose compilation fails in that load, has the
\* same compiled handle, metadata and examples after the load as before it and
\* is a key of the load's error map - in all three discovery shapes.
C1_FailedProtocolRetained ==
    [][\A p \in pending : LoadCompletes(p) =>
          \A P \in (DOMAIN compilers) \cap Failed(p) :
              /\ Get(compilers', P) = Get(compilers, P)
              /\ Get(metadata', P) = Get(metadata, P)
              /\ Get(examples', P) = Get(examples, P)
              /\ P \in DOMAIN ret'.errors]_vars

\* C2: when protocol A fails to compile in a load, every other protocol B
\* compiled in that load has, after the load, exactly the handle and metadata
\* its own compilation produced, whatever order the directories are listed in.
C2_FailureIsolated ==
    [][\A p \in pending : LoadCompletes(p) =>
          \A A \in Failed(p) : \A B \in Succeeded(p) \ {A} :
              /\ Get(compilers', B) = {p.scan[B].from.comp}
              /\ Get(metadata', B) = {p.scan[B].from.meta}]_vars

\* C2 witness: a load has completed in which one protocol failed and another,
\* edited since the start, was compiled and is served from its new contents.
C2_Witness ==
    /\ pending = {}
    /\ ret.branch = "loaded"
    /\ \E A \in DOMAIN ret.errors : \E B \in (DOMAIN compilers) \ {A} :
          /\ B \in DOMAIN last_load.scan
          /\ last_load.scan[B].ok
          /\ compilers[B] = last_load.scan[B].from.comp
          /\ \E s \in compilers[B].src : s.st > 0

\* The handle compiled from the schema contents protocol P had on disk when
\* the last completed load scanned it
HandleAtLastLoad(P) == last_load.scan[P].from.comp

\* A read has completed after a reload and no load has run since
ReadAfterReload == pending = {} /\ ret.op = "read" /\ last_load.op = "reload"

\* C9 as stated: after reload() completes, whatever get_compiler(name) returns
\* for a protocol with schema files on disk at the reload is the handle compiled
\* from those contents; a read never observes a handle of the pre-reload state.
C9_Original ==
    ReadAfterReload =>
        \A P \in DOMAIN last_load.scan :
            Returned("get_compiler", P) \subseteq {HandleAtLastLoad(P)}

\* C9 amended: after reload() completes and until another load runs,
\* get_compiler(name) returns, for every protocol whose schema compiled at the
\* reload, the handle compiled from the on-disk contents as they were at the
\* reload, and nothing for a protocol without schema files - whatever the
\* polling interval and the time since the last snapshot check.
C9_ReloadReflectsDisk ==
    ReadAfterReload =>
        \A P \in Protocols :
            (P \in DOMAIN last_load.scan => last_load.scan[P].ok) =>
                Returned("get_compiler", P) =
                    (IF P \in DOMAIN last_load.scan THEN {HandleAtLastLoad(P)} ELSE {})

\* C9 witness: a read that followed a reload returned a handle compiled from
\* contents edited before the reload.
C9_Witness ==
    /\ ReadAfterReload
    /\ \E P \in DOMAIN last_load.scan :
          /\ last_load.scan[P].ok
          /\ Returned("get_compiler", P) = {HandleAtLastLoad(P)}
          /\ \E s \in HandleAtLastLoad(P).src : s.st > 0

\* A recognized schema or example file under a scanned location was added,
\* removed or rewritten after the stored snapshot was captured
ChangedSinceSnapshot ==
    \E f \in FilePaths :
        /\ f.root \in Range(CheckPaths)
        /\ f.ext \in tracked_extensions
        /\ disk[f].st > last_load.snap_edits

\* A read whose staleness check ran (interval elapsed) and found nothing to load
ReadFindsNoChange ==
    /\ pending = {} /\ pending' = {}
    /\ ~Throttled
    /\ disk' = disk /\ now' = now
    /\ ret'.op = "read" /\ ret'.branch = "unchanged"
    /\ <<ret, last_snapshot_check>> # <<ret', last_snapshot_check'>>

\* C10: when a recognized schema or example file under a source location was
\* added, removed or rewritten since the stored snapshot, the first read after
\* the polling interval finds a differing snapshot and runs a load - for
\* top-level files of a source directory as for files in its subdirectories.
C10_ChangeDetected ==
    [][ChangedSinceSnapshot => ~ReadFindsNoChange]_vars

\* The protocols whose schema files the snapshot stats: the explicit schema
\* file and the files of first-level subdirectories
SnapshotTracked == {P \in Protocols : ShapeOf(P) # "direct"}

\* C11: the registry stays synced to disk: a read whose staleness check ran
\* with the interval elapsed and found nothing to load returns, for every
\* protocol whose schema files compile, the handle compiled from the contents
\* now on disk - also when an edit landed between the protocol's compilation
\* and the snapshot capture at the end of the same load.
C11_SyncedToDisk ==
    [][ReadFindsNoChange =>
          \A P \in SnapshotTracked :
              LET files == SourceFiles(P, CheckPaths)
              IN  (files # {} /\ CompileOk(files)) =>
                      Get(compilers', P) = {Handle(P, files)}]_vars

\* The key sets of the three registry maps agree
KeySetsAgree ==
    /\ DOMAIN compilers = DOMAIN metadata
    /\ DOMAIN examples \subseteq DOMAIN compilers

\* A step on which a reader operation returns
ReadReturns == ret'.op = "read" /\ (ret' # ret \/ last_snapshot_check' # last_snapshot_check)

\* C12: readers that run concurrently with a load observe either the complete
\* state before the load or the complete state after it: the three maps
\* change only together, on the step that ends a load and releases the lock,
\* to the maps that load built; no reader returns while a load holds the
\* lock; and in what a reader observes the compiled-handle map and the
\* metadata map have the same keys and every key of the examples map is a key
\* of the compiled-handle map.
C12_ReadersSeeCompleteState ==
    /\ []KeySetsAgree
    /\ [][\/ UNCHANGED <<compilers, metadata, examples>>
          \/ \E p \in pending :
                /\ LoadCompletes(p)
                /\ compilers' = p.acc.comp
                /\ metadata' = p.acc.meta
                /\ examples' = p.acc.ex]_vars
    /\ [][ReadReturns => pending' = {} /\ KeySetsAgree']_vars

\* C12 witness: a reader has returned straight after a load by another caller
\* that retained a failed protocol next to a freshly compiled one that has
\* examples.
C12_Witness ==
    /\ pending = {}
    /\ ret.op = "read" /\ ret.branch = "throttled"
    /\ last_load.op # "read"
    /\ DOMAIN examples # {}
    /\ \E P \in DOMAIN last_load.scan :
          ~last_load.scan[P].ok /\ P \in DOMAIN compilers

\* A staleness-triggered load ends in which alpha, compiled before, failed and
\* beta, compiled before, compiled again
AlphaBrokenBetaGood(p) ==
    /\ LoadCompletes(p)
    /\ p.op = "read"
    /\ {"alpha", "beta"} \subseteq DOMAIN compilers
    /\ "alpha" \in Failed(p)
    /\ "beta" \in Succeeded(p)

\* What list_metadata() returns after the step
ListedAfter == Result("list_metadata", "", compilers', metadata', examples')

ThrottledRead == ReadReturns /\ ret'.branch = "throttled"

\* A step on which a read returns after finding the fresh snapshot equal to
\* the stored one
UnchangedRead == ReadReturns /\ ret'.branch = "unchanged"

\* A step on which a read computes a fresh snapshot
SnapshotComputed ==
    \/ UnchangedRead
    \/ pending = {} /\ \E p \in pending' : p.op = "read"

\* C23: the snapshot is recomputed at most once per polling interval: a read
\* less than the interval after the last snapshot check computes nothing and
\* leaves handles, metadata, examples, stored snapshot and last-check time
\* unchanged; a read after the interval whose fresh snapshot equals the
\* stored one changes only the last-check time, to the time of the read; and
\* a read computes a snapshot only when the interval has passed since the
\* last check.
C23_SnapshotThrottled ==
    /\ [][ThrottledRead =>
            /\ now - last_snapshot_check < snapshot_interval
            /\ UNCHANGED <<compilers, metadata, examples, snapshot_state,
                           last_snapshot_check, current_paths, pending>>]_vars
    /\ [][UnchangedRead =>
            /\ last_snapshot_check' = now
            /\ snapshot_state = _capture_snapshot(CheckPaths)
            /\ UNCHANGED <<compilers, metadata, examples, snapshot_state,
                           current_paths, pending>>]_vars
    /\ [][SnapshotComputed => now - last_snapshot_check >= snapshot_interval]_vars
    /\ [](pending = {} => last_snapshot_check <= now)

\* C23 witness: a read after the interval has found the snapshot unchanged
\* and moved the last-check time to its own time
C23_Witness ==
    /\ pending = {}
    /\ ret.op = "read" /\ ret.branch = "unchanged"
    /\ last_snapshot_check = now
    /\ now >= snapshot_interval
    /\ edits > 0

\* C24: a protocol whose compilation fails in a load and which has no
\* compiled version in the registry before it is absent from list_protocols()
\* after the load, and the error map that load_protocols() or reload() returns
\* holds a non-empty message under the protocol's name.
C24_FailedNewProtocolAbsent ==
    [][\A p \in pending : LoadCompletes(p) =>
          \A P \in Failed(p) \ DOMAIN compilers :
              /\ P \notin Result("list_protocols", "", compilers', metadata', examples')
              /\ P \notin DOMAIN metadata'
              /\ p.op \in {"reload", "load_protocols"} =>
                    /\ P \in DOMAIN ret'.errors
                    /\ ret'.errors[P] # ""]_vars

\* C24 witness: reload() has returned an error for a first-level-subdirectory
\* protocol that the registry does not hold; that shape keeps a previous
\* version when there is one, so the protocol had none
C24_Witness ==
    /\ pending = {}
    /\ ret.op = "reload" /\ ret.branch = "loaded"
    /\ \E P \in DOMAIN ret.errors :
          /\ ShapeOf(P) = "subdir"
          /\ P \notin DOMAIN compilers
          /\ ret.errors[P] # ""

\* The step on which a load starts: it scans the disk as it is at this step
LoadStarts(p) == pending = {} /\ p \in pending'

\* The configured locations that do not exist
MissingLocations == {l \in Range(specs_directories) : ~exists(LocPath(l))}

\* C25: a configured location that does not exist is skipped and is never
\* fatal: the load runs to its end, records no error and no protocol for the
\* location, and gives every protocol found under the remaining locations
\* the handle compiled from its files.
C25_MissingLocationSkipped ==
    /\ [][\A p \in pending' : LoadStarts(p) =>
            \A l \in MissingLocations :
                /\ l \notin Range(_resolve_specs_paths)
                /\ LocStem[l] \notin DOMAIN p.acc.err
                /\ LocStem[l] \notin DOMAIN p.acc.comp
                /\ \A P \in Protocols :
                      LET files == SourceFiles(P, specs_directories)
                      IN  (LocOf(P) # l /\ files # {} /\ CompileOk(files)) =>
                              Get(p.acc.comp, P) = {Handle(P, files)}]_vars
    /\ [][\A p \in pending : LoadCompletes(p) =>
            /\ ret'.branch = "loaded"
            /\ compilers' = p.acc.comp
            /\ DOMAIN ret'.errors \subseteq DOMAIN p.acc.err]_vars

\* C25 witness: reload() has completed over a configuration whose schema
\* file location did not exist; it was left out of the scanned paths, has no
\* error, and the protocols of the directory are served
C25_Witness ==
    /\ pending = {}
    /\ ret.op = "reload" /\ ret.branch = "loaded"
    /\ FileLoc \in Range(specs_directories)
    /\ FileLoc \notin Range(current_paths)
    /\ LocStem[FileLoc] \notin DOMAIN ret.errors
    /\ {"pd", "alpha"} \subseteq DOMAIN compilers

(***************************************************************************)
(* CONVERTER: wire values, codec values and types                          *)
(***************************************************************************)
\* A Python value is a record [k, v]: its kind and its content.  A str is a
\* sequence of characters (a key word such as "$choice" counts as one
\* character); bytes are a sequence of lower-case hex digits, two per byte.
PyNone == [k |-> "none", v |-> 0]
PyInt(n) == [k |-> "int", v |-> n]
PyStr(s) == [k |-> "str", v |-> s]
PyBytes(h) == [k |-> "bytes", v |-> h]
PyList(items) == [k |-> "list", v |-> items]
PyTuple(items) == [k |-> "tuple", v |-> items]
PyDict(f) == [k |-> "dict", v |-> f]
\* A raised exception, as the outcome of a call
Raise(e) == [k |-> "raise", v |-> e]
IsRaise(x) == x.k = "raise"

\* The name of a dict key or of a type member, as a str value
KeyStr(key) == PyStr(<<key>>)

Chars == {"0", "a", "x", "z", " "}
HexDigits == {"0", "a"}
Whitespace == {" "}
\* Upper-case hex digits, which bytes.fromhex reads like the lower-case ones
UpperHex == {"A"}
Lower(c) == IF c = "A" THEN "a" ELSE c

\* str.replace("0x", ""): non-overlapping occurrences, left to right
RECURSIVE Remove0x(_)
Remove0x(s) ==
    IF Len(s) >= 2 /\ s[1] = "0" /\ s[2] = "x" THEN Remove0x(SubSeq(s, 3, Len(s)))
    ELSE IF s = << >> THEN << >>
    ELSE <<s[1]>> \o Remove0x(Tail(s))

\* str.replace(" ", "").replace("\n", "")
RemoveSpaces(s) == SelectSeq(s, LAMBDA c : c \notin Whitespace)

startswith0x(s) == Len(s) >= 2 /\ s[1] = "0" /\ s[2] = "x"

\* bool(s.strip())
StripNonEmpty(s) == \E i \in DOMAIN s : s[i] \notin Whitespace

\* bytes.fromhex: whitespace is skipped before each byte, then two hex digits
\* must follow; anything else is a ValueError
RECURSIVE fromhex(_)
fromhex(s) ==
    IF s = << >> THEN PyBytes(<< >>)
    ELSE IF s[1] \in Whitespace THEN fromhex(Tail(s))
    ELSE IF Len(s) >= 2 /\ s[1] \in HexDigits \cup UpperHex /\ s[2] \in HexDigits \cup UpperHex
         THEN LET rest == fromhex(SubSeq(s, 3, Len(s)))
              IN  IF IsRaise(rest) THEN rest
                  ELSE PyBytes(<<Lower(s[1]), Lower(s[2])>> \o rest.v)
    ELSE Raise("ValueError")

\* bytes.fromhex of something that may not be a str
fromhexOf(x) == IF x.k = "str" THEN fromhex(x.v) ELSE Raise("TypeError")

\* The first raised exception among a sequence of outcomes, if any
FirstRaise(items) ==
    LET bad == {i \in DOMAIN items : IsRaise(items[i])}
    IN  IF bad = {} THEN {} ELSE {items[CHOOSE i \in bad : \A j \in bad : i <= j]}
AnyRaise(f) == {f[x] : x \in {y \in DOMAIN f : IsRaise(f[y])}}

(***************************************************************************)
(* CONVERTER: serialization.py                                             *)
(***************************************************************************)
CHOICE_META_KEYS == {"value", "$choice", "choice"}
BlankKeys == {"", " "}

\* _extract_choice: {} when None is returned, else {<<name, value>>}
_extract_choice(data) ==
    IF "$choice" \in DOMAIN data /\ "value" \in DOMAIN data
    THEN {<<data["$choice"], data["value"]>>}
    ELSE IF "choice" \in DOMAIN data /\ "value" \in DOMAIN data
    THEN {<<data["choice"], data["value"]>>}
    ELSE LET extra_keys == (DOMAIN data) \ CHOICE_META_KEYS
             byMarker ==
                IF "value" \in DOMAIN data /\ Cardinality(extra_keys) = 1
                THEN LET marker_value == data[CHOOSE key \in extra_keys : TRUE]
                     IN  IF marker_value.k = "str" /\ StripNonEmpty(marker_value.v)
                         THEN {<<marker_value, data["value"]>>}
                         ELSE {}
                ELSE {}
         IN  IF byMarker # {} THEN byMarker
             ELSE IF Cardinality(DOMAIN data) = 1
             THEN LET key == CHOOSE x \in DOMAIN data : TRUE
                  IN  IF key \notin BlankKeys THEN {<<KeyStr(key), data[key]>>} ELSE {}
             ELSE {}

\* deserialize_asn1_data
RECURSIVE deserialize_asn1_data(_)
deserialize_asn1_data(data) ==
    IF data.k = "dict"
    THEN IF "$hex" \in DOMAIN data.v THEN fromhexOf(data.v["$hex"])
         ELSE LET choice_candidate == _extract_choice(data.v)
              IN  IF choice_candidate # {}
                  THEN LET c == CHOOSE x \in choice_candidate : TRUE
                           inner == deserialize_asn1_data(c[2])
                       IN  IF IsRaise(inner) THEN inner ELSE PyTuple(<<c[1], inner>>)
                  ELSE LET out == [key \in DOMAIN data.v |-> deserialize_asn1_data(data.v[key])]
                       IN  IF AnyRaise(out) # {} THEN CHOOSE r \in AnyRaise(out) : TRUE
                           ELSE PyDict(out)
    ELSE IF data.k = "list"
    THEN IF /\ Len(data.v) = 2 /\ data.v[1].k = "str" /\ data.v[2].k = "int"
            /\ startswith0x(data.v[1].v)
         THEN LET b == fromhex(Remove0x(data.v[1].v))
              IN  IF IsRaise(b) THEN b ELSE PyTuple(<<b, data.v[2]>>)
         ELSE LET out == [i \in DOMAIN data.v |-> deserialize_asn1_data(data.v[i])]
              IN  IF FirstRaise(out) # {} THEN CHOOSE r \in FirstRaise(out) : TRUE
                  ELSE PyList(out)
    ELSE IF data.k = "str" /\ startswith0x(data.v) THEN fromhex(Remove0x(data.v))
    ELSE data

(***************************************************************************)
(* CONVERTER: converter.py                                                 *)
(***************************************************************************)
\* Compiled types: class name, ordered members (name and type) and element type
Member(name, type) == [name |-> name, type |-> type]
TypeTable ==
    [INTEGER |-> [cls |-> "Integer", members |-> << >>, element_type |-> ""],
     OCTETS |-> [cls |-> "OctetString", members |-> << >>, element_type |-> ""],
     BITS |-> [cls |-> "BitString", members |-> << >>, element_type |-> ""],
     Pick |-> [cls |-> "Choice",
               members |-> <<Member("a", "INTEGER"), Member("b", "INTEGER")>>,
               element_type |-> ""],
     Rec |-> [cls |-> "Sequence",
              members |-> <<Member("o", "OCTETS"), Member("c", "Pick")>>,
              element_type |-> ""],
     Items |-> [cls |-> "SequenceOf", members |-> << >>, element_type |-> "OCTETS"],
     One |-> [cls |-> "Sequence", members |-> <<Member("x", "INTEGER")>>, element_type |-> ""],
     Wrap |-> [cls |-> "Choice",
               members |-> <<Member("s", "One"), Member("o", "OCTETS")>>,
               element_type |-> ""],
     EmptySeq |-> [cls |-> "Sequence", members |-> << >>, element_type |-> ""],
     TestChoice |-> [cls |-> "Choice",
                     members |-> <<Member("normalOption", "One"),
                                   Member("emptyOption", "EmptySeq")>>,
                     element_type |-> ""],
     Container |-> [cls |-> "Sequence",
                    members |-> <<Member("emptyField", "EmptySeq"),
                                  Member("normalField", "INTEGER")>>,
                    element_type |-> ""]]

_get_members(type_obj) == TypeTable[type_obj].members

\* int(x)
int(x) ==
    IF x.k = "int" THEN x
    ELSE IF x.k = "str"
         THEN LET digits == RemoveSpaces(x.v)
              IN  IF /\ digits # << >>
                     /\ \A i \in DOMAIN digits : digits[i] = "0"
                     /\ \A i, j \in DOMAIN x.v :
                           (i < j /\ x.v[i] = "0" /\ x.v[j] = "0") =>
                               \A m \in i..j : x.v[m] = "0"
                  THEN PyInt(0)
                  ELSE Raise("ValueError")
    ELSE Raise("TypeError")

\* val.replace("0x", "").replace(" ", "").replace("\n", ""), padded to even length
clean_hex(val) ==
    LET c == RemoveSpaces(Remove0x(val))
    IN  IF Len(c) % 2 # 0 THEN Append(c, "0") ELSE c

\* lines 81-94: {} when the OctetString branch falls through
OctetStringBranch(data) ==
    LET val == IF data.k \in {"list", "tuple"} /\ Len(data.v) >= 1 THEN data.v[1] ELSE data
    IN  IF val.k = "str" /\ ~IsRaise(fromhex(clean_hex(val.v)))
        THEN {fromhex(clean_hex(val.v))}
        ELSE {}

\* Mutant: the bit length is always eight times the number of bytes
BitStringBranch_WholeBytes(data) ==
    LET pair == data.k \in {"list", "tuple"} /\ Len(data.v) >= 2
        hex_str == IF pair THEN {data.v[1]} ELSE IF data.k = "str" THEN {data} ELSE {}
    IN  IF \E h \in hex_str : h.k = "str" /\ ~IsRaise(fromhex(clean_hex(h.v)))
        THEN LET b == fromhex(clean_hex((CHOOSE h \in hex_str : TRUE).v))
             IN  {PyTuple(<<b, PyInt((Len(b.v) \div 2) * 8)>>)}
        ELSE {}

\* lines 97-118: {} when the BitString branch falls through
BitStringBranch(data) ==
    LET pair == data.k \in {"list", "tuple"} /\ Len(data.v) >= 2
        bit_len == IF pair THEN {int(data.v[2])} ELSE {}
        hex_str == IF pair THEN {data.v[1]} ELSE IF data.k = "str" THEN {data} ELSE {}
    IN  IF \E n \in bit_len : IsRaise(n) THEN bit_len
        ELSE IF \E h \in hex_str : h.k = "str" /\ ~IsRaise(fromhex(clean_hex(h.v)))
        THEN LET b == fromhex(clean_hex((CHOOSE h \in hex_str : TRUE).v))
             IN  {PyTuple(<<b, IF bit_len = {} THEN PyInt((Len(b.v) \div 2) * 8)
                                ELSE CHOOSE n \in bit_len : TRUE>>)}
        ELSE {}

\* Mutant: only the keys of declared members reach the result
ResultKeys_MembersOnly(data, members) ==
    {key \in DOMAIN data : \E i \in DOMAIN members : members[i].name = key}

\* lines 59-70: the keys of the converted map, the members found in data and
\* then every other key of data
ResultKeys(data, members) ==
    {members[i].name : i \in {j \in DOMAIN members : members[j].name \in DOMAIN data}}
    \cup {k \in DOMAIN data : TRUE}

RECURSIVE convert_to_python_asn1(_, _)
convert_to_python_asn1(data, type_obj) ==
    LET type_cls == TypeTable[type_obj].cls
        members == _get_members(type_obj)
        present == IF data.k = "dict"
                   THEN {i \in DOMAIN members : members[i].name \in DOMAIN data.v}
                   ELSE {}
    IN
    IF type_cls = "Choice" /\ present # {}
    THEN LET member == members[CHOOSE i \in present : \A j \in present : i <= j]
             converted_val == convert_to_python_asn1(data.v[member.name], member.type)
         IN  IF IsRaise(converted_val) THEN converted_val
             ELSE PyTuple(<<KeyStr(member.name), converted_val>>)
    ELSE IF type_cls = "Choice" /\ data.k \in {"tuple", "list"} /\ Len(data.v) = 2
    THEN LET inner == convert_to_python_asn1(data.v[2], type_obj)
         IN  IF IsRaise(inner) THEN inner ELSE PyTuple(<<data.v[1], inner>>)
    ELSE IF type_cls \in {"Sequence", "Set"} /\ data.k = "dict"
    THEN LET typeOf == [i \in present |-> members[i].type]
             converted ==
                [key \in ResultKeys(data.v, members) |->
                    IF \E i \in present : members[i].name = key
                    THEN convert_to_python_asn1(
                            data.v[key],
                            typeOf[CHOOSE i \in present : members[i].name = key])
                    ELSE deserialize_asn1_data(data.v[key])]
         IN  IF AnyRaise(converted) # {} THEN CHOOSE r \in AnyRaise(converted) : TRUE
             ELSE PyDict(converted)
    ELSE IF /\ type_cls \in {"SequenceOf", "SetOf"} /\ data.k = "list"
            /\ TypeTable[type_obj].element_type # ""
    THEN LET out == [i \in DOMAIN data.v |->
                        convert_to_python_asn1(data.v[i], TypeTable[type_obj].element_type)]
         IN  IF FirstRaise(out) # {} THEN CHOOSE r \in FirstRaise(out) : TRUE
             ELSE PyList(out)
    ELSE IF type_cls = "OctetString" /\ OctetStringBranch(data) # {}
    THEN CHOOSE b \in OctetStringBranch(data) : TRUE
    ELSE IF type_cls = "BitString" /\ BitStringBranch(data) # {}
    THEN CHOOSE b \in BitStringBranch(data) : TRUE
    ELSE deserialize_asn1_data(data)

(***************************************************************************)
(* CONVERTER: the inputs of one call, and the call                         *)
(***************************************************************************)
Texts == UNION {[1..n -> Chars] : n \in 0..MaxStrLen}

\* Texts of a hex field: bare, wrapped in a list, or paired with a bit length
BitLens == {PyInt(4), PyInt(8), PyNone, PyStr(<<"z">>)}
HexWire ==
    {PyStr(t) : t \in Texts}
    \cup {PyList(<<PyStr(t)>>) : t \in Texts}
    \cup {PyList(<<PyStr(t), n>>) : t \in Texts, n \in BitLens}

\* Maps given for a CHOICE: up to three keys among the notations' key words and
\* the alternatives' names
ChoiceKeys == {"$choice", "choice", "value", "a", "b", ""}
ChoiceVals == {PyInt(1), PyInt(2), KeyStr("a"), KeyStr("b"), PyStr(<< >>)}
MaxChoiceKeys == 3
ChoiceMaps ==
    {PyDict(f) : f \in UNION {[ks -> ChoiceVals] :
                               ks \in {k \in SUBSET ChoiceKeys :
                                          Cardinality(k) \in 1..MaxChoiceKeys}}}

\* Maps given for the SEQUENCE, with a key that is no declared member
RecMaps ==
    {PyDict(f) : f \in UNION {[ks -> {PyStr(<<"0", "x", "a", "0">>), PyStr(<<"0", "x", "z">>),
                                      PyDict([a |-> PyInt(1)]), PyInt(1)}] :
                               ks \in (SUBSET {"o", "c", "k"}) \ {{}}}}

ItemLists == {PyList(<<x, y>>) : x, y \in {PyStr(<<"a", "0">>), PyStr(<<"0", "x", "z">>),
                                           PyStr(<<"z">>)}}

\* An empty SEQUENCE given as {} or as null, alone, as the payload of a CHOICE
\* alternative and as a member of an enclosing SEQUENCE
EmptyWire == {PyDict(<< >>), PyNone}
EmptyInputs ==
    {[data |-> d, type |-> "EmptySeq"] : d \in EmptyWire}
    \cup {[data |-> PyDict([emptyOption |-> d]), type |-> "TestChoice"] : d \in EmptyWire}
    \cup {[data |-> PyDict([normalOption |-> PyDict([x |-> PyInt(1)])]), type |-> "TestChoice"]}
    \cup {[data |-> PyDict([emptyField |-> d, normalField |-> PyInt(1)]), type |-> "Container"] :
              d \in EmptyWire}

ConvInputs ==
    {[data |-> d, type |-> t] : d \in HexWire, t \in {"OCTETS", "BITS", "INTEGER"}}
    \cup {[data |-> d, type |-> "Pick"] : d \in ChoiceMaps}
    \cup {[data |-> PyList(<<KeyStr(n), v>>), type |-> "Pick"] :
              n \in {"a", "b"}, v \in ChoiceVals}
    \cup {[data |-> d, type |-> "Rec"] : d \in RecMaps}
    \cup {[data |-> d, type |-> "Items"] : d \in ItemLists}
    \cup EmptyInputs

\* The registry is constructed and quiet while the converter runs
RegQuiet == RegStart

ConvInit ==
    /\ RegQuiet
    /\ TracerIdle
    /\ walk = NoWalk /\ MscIdle
    /\ \E i \in ConvInputs : conv = [pc |-> "called", data |-> i.data, type |-> i.type,
                                     out |-> PyNone]

\* toCodecValue: one call of convert_to_python_asn1, returning or raising
toCodecValue ==
    /\ conv.pc = "called"
    /\ conv' = [conv EXCEPT !.pc = "returned",
                            !.out = convert_to_python_asn1(conv.data, conv.type)]
    /\ UNCHANGED nonConvVars

ConvNext == toCodecValue

SpecConverter == ConvInit /\ [][ConvNext]_vars

(***************************************************************************)
(* CONVERTER: properties                                                   *)
(***************************************************************************)
\* C3: toCodecValue never raises: every call returns some codec value, also
\* for an OCTET STRING or BIT STRING whose hex text is invalid, with or
\* without a 0x prefix, bare or wrapped in a list.
C3_NeverRaises == conv.pc = "returned" => ~IsRaise(conv.out)

\* A call on a SEQUENCE or SET type with a wire map has returned a value
MapConverted ==
    /\ conv.pc = "returned"
    /\ TypeTable[conv.type].cls \in {"Sequence", "Set"}
    /\ conv.data.k = "dict"
    /\ ~IsRaise(conv.out)

\* The type of the declared member called key, if there is one
MemberTypes(type_obj, key) ==
    {m.type : m \in {x \in Range(_get_members(type_obj)) : x.name = key}}

IsEmptyType(type_obj) ==
    TypeTable[type_obj].cls \in {"Sequence", "Set"} /\ _get_members(type_obj) = << >>

\* The members of the called type that are of an empty type and given as null
NullEmptyMembers ==
    {m \in Range(_get_members(conv.type)) :
        /\ IsEmptyType(m.type)
        /\ conv.data.k = "dict"
        /\ m.name \in DOMAIN conv.data.v
        /\ conv.data.v[m.name] = PyNone}

\* C22: a null given for an empty SEQUENCE or SET, as the payload of a CHOICE
\* alternative or as a member of an enclosing SEQUENCE, is converted to the
\* empty map: {"emptyOption": null} against the CHOICE gives
\* ("emptyOption", {}).
C22_NullToEmptyMap ==
    (conv.pc = "returned" /\ conv.type \in {"TestChoice", "Container"}) =>
        \A m \in NullEmptyMembers :
            IF TypeTable[conv.type].cls = "Choice"
            THEN conv.out = PyTuple(<<KeyStr(m.name), PyDict(EmptyDict)>>)
            ELSE conv.out.v[m.name] = PyDict(EmptyDict)

\* The wire map matches rule (a): "$choice" or "choice" paired with "value"
MatchesRuleA(d) ==
    /\ d.k = "dict"
    /\ "value" \in DOMAIN d.v
    /\ ("$choice" \in DOMAIN d.v \/ "choice" \in DOMAIN d.v)
    /\ (IF "$choice" \in DOMAIN d.v THEN d.v["$choice"] ELSE d.v["choice"])
          \in {KeyStr("a"), KeyStr("b")}
RuleADiscriminator(d) == IF "$choice" \in DOMAIN d.v THEN d.v["$choice"] ELSE d.v["choice"]

\* C4: on a CHOICE type a wire map matching rule (a) resolves via rule (a),
\* also when it holds a key naming another alternative: the discriminator of
\* the result is the value under "$choice"/"choice".
C4_ChoicePrecedence ==
    (conv.pc = "returned" /\ TypeTable[conv.type].cls = "Choice" /\ MatchesRuleA(conv.data)) =>
        /\ conv.out.k = "tuple"
        /\ conv.out.v[1] = RuleADiscriminator(conv.data)

(***************************************************************************)
(* TRACER: serialization.py, the wire form of a decoded value              *)
(***************************************************************************)
RECURSIVE serialize_asn1_data(_)
serialize_asn1_data(data) ==
    IF data.k = "dict"
    THEN PyDict([key \in DOMAIN data.v |-> serialize_asn1_data(data.v[key])])
    ELSE IF data.k = "tuple"
    THEN IF Len(data.v) = 2 /\ data.v[1].k = "str"
         THEN PyDict([key \in {"$choice", "value"} |->
                         IF key = "$choice" THEN data.v[1]
                         ELSE serialize_asn1_data(data.v[2])])
         ELSE IF Len(data.v) = 2 /\ data.v[1].k = "bytes" /\ data.v[2].k = "int"
         THEN PyList(<<PyStr(<<"0", "x">> \o data.v[1].v), data.v[2]>>)
         ELSE PyList([i \in DOMAIN data.v |-> serialize_asn1_data(data.v[i])])
    ELSE IF data.k = "list"
    THEN PyList([i \in DOMAIN data.v |-> serialize_asn1_data(data.v[i])])
    ELSE IF data.k = "bytes" THEN PyStr(data.v)
    ELSE data

(***************************************************************************)
(* TRACER: the compiled types of a protocol and the codec's own decoding   *)
(***************************************************************************)
\* The type objects of one compiled protocol: Msg ::= SEQUENCE { hdr OCTET
\* STRING, body SET { tag IA5String } } and Tag ::= IA5String
CodecObjs ==
    [Msg |-> [cls |-> "Sequence", name |-> "Msg", type_name |-> "SEQUENCE",
              members |-> <<"hdr", "body">>],
     hdr |-> [cls |-> "OctetString", name |-> "hdr", type_name |-> "OCTET STRING",
              members |-> << >>],
     body |-> [cls |-> "Set", name |-> "body", type_name |-> "SET", members |-> <<"tag">>],
     tag |-> [cls |-> "IA5String", name |-> "tag", type_name |-> "IA5String",
              members |-> << >>],
     Tag |-> [cls |-> "IA5String", name |-> "Tag", type_name |-> "IA5String",
              members |-> << >>]]
\* compiler.types
CompilerTypes == {"Msg", "Tag"}

\* One octet of the payload is two hex digits
OctetBits == 8
NumOctets(payload) == Len(payload) \div 2
Octet(payload, i) == <<payload[2 * i - 1], payload[2 * i]>>

\* What the original decode of a leaf class makes of one octet
LeafValue(fn, octet) == IF fn = "OctetString" THEN PyBytes(octet) ELSE PyStr(octet)
IsLeaf(fn) == fn \in {"OctetString", "KnownMultiplierStringType"}

\* The declared constraint: hdr is not the octet aa
check_constraints(type_name, value) ==
    IF type_name = "Msg" /\ value.v["hdr"] = PyBytes(<<"a", "a">>)
    THEN Raise("ConstraintsError")
    ELSE value

\* getattr(cls, "decode"): the class's own attribute, else its base class's
getattr_decode(attrs, cls) == IF attrs[cls].own THEN attrs[cls] ELSE attrs[Base[cls]]

\* The decoding of obj by the codec alone, from octet pos on: [val, pos]
RECURSIVE CodecDecode(_, _, _), CodecMembers(_, _, _, _, _)
CodecMembers(members, i, payload, pos, acc) ==
    IF i > Len(members) THEN [val |-> PyDict(acc), pos |-> pos]
    ELSE LET r == CodecDecode(members[i], payload, pos)
         IN  IF IsRaise(r.val) THEN r
             ELSE CodecMembers(members, i + 1, payload, r.pos,
                               Put(acc, CodecObjs[members[i]].name, r.val))
CodecDecode(obj, payload, pos) ==
    LET fn == getattr_decode(ImportedDecode, CodecObjs[obj].cls).fn
    IN  IF IsLeaf(fn)
        THEN IF pos < NumOctets(payload)
             THEN [val |-> LeafValue(fn, Octet(payload, pos + 1)), pos |-> pos + 1]
             ELSE [val |-> Raise("DecodeError"), pos |-> pos]
        ELSE CodecMembers(CodecObjs[obj].members, 1, payload, pos, EmptyDict)

\* compiler.decode(type_name, payload_bytes, check_constraints=True) with no
\* tracing: the decoded value or the raised error
PlainDecode(type_name, payload) ==
    LET r == CodecDecode(type_name, payload, 0)
    IN  IF IsRaise(r.val) THEN r.val ELSE check_constraints(type_name, r.val)

(***************************************************************************)
(* TRACER: tracer.py, TraceCollector                                       *)
(***************************************************************************)
\* A TraceNode; id and by identify the object: the push that created it and
\* the thread that made that push
TraceNode(name, type_label, id, by) ==
    [name |-> name, type_label |-> type_label, value |-> PyNone, bits |-> << >>,
     children |-> << >>, id |-> id, by |-> by]

TraceCollector(total_bits) ==
    [stack |-> << >>, root |-> << >>, total_bits |-> total_bits, next |-> 1]

\* type_obj.name or type_obj.type_name or "anonymous"
NodeName(obj) ==
    IF CodecObjs[obj].name # "" THEN CodecObjs[obj].name
    ELSE IF CodecObjs[obj].type_name # "" THEN CodecObjs[obj].type_name
    ELSE "anonymous"

\* Mutant: every frame records bit offset 0 as its start
push_StartsAtZero(c, obj, read_bits, by) ==
    LET node == TraceNode(NodeName(obj), CodecObjs[obj].type_name, c.next, by)
    IN  [c EXCEPT !.stack = Append(@, [node |-> node, start |-> 0, id |-> c.next]),
                  !.next = @ + 1]

\* push: the collector afterwards; the frame it returns is identified by c.next.
\* Every decoder of the PER codec exposes number_of_read_bits.
push(c, obj, read_bits, by) ==
    LET node == TraceNode(NodeName(obj), CodecObjs[obj].type_name, c.next, by)
    IN  [c EXCEPT !.stack = Append(@, [node |-> node, start |-> read_bits, id |-> c.next]),
                  !.next = @ + 1]

Front(q) == SubSeq(q, 1, Len(q) - 1)
Last(q) == q[Len(q)]

\* A pop_success that puts the node in front of its siblings
pop_success_AsFirstChild(c, frame, value, read_bits) ==
    IF frame = 0 THEN c
    ELSE IF c.stack = << >> \/ Last(c.stack).id # frame THEN c
    ELSE LET node == [Last(c.stack).node EXCEPT
                         !.bits = <<Last(c.stack).start, read_bits>>,
                         !.value = serialize_asn1_data(value)]
             rest == Front(c.stack)
         IN  IF rest # << >>
             THEN [c EXCEPT !.stack =
                      [rest EXCEPT ![Len(rest)].node.children = <<node>> \o @]]
             ELSE [c EXCEPT !.stack = << >>, !.root = <<node>>]

\* pop_success: the collector afterwards (frame 0 is None)
pop_success(c, frame, value, read_bits) ==
    IF frame = 0 THEN c
    ELSE IF c.stack = << >> \/ Last(c.stack).id # frame THEN c
    ELSE LET node == [Last(c.stack).node EXCEPT
                         !.bits = <<Last(c.stack).start, read_bits>>,
                         !.value = serialize_asn1_data(value)]
             rest == Front(c.stack)
         IN  IF rest # << >>
             THEN [c EXCEPT !.stack =
                      [rest EXCEPT ![Len(rest)].node.children = Append(@, node)]]
             ELSE [c EXCEPT !.stack = << >>, !.root = <<node>>]

\* pop_error with a frame that is left on the stack
pop_error_KeepsFrame(c, frame) == c

\* pop_error: the collector afterwards
pop_error(c, frame) ==
    IF frame = 0 THEN c
    ELSE IF c.stack # << >> /\ Last(c.stack).id = frame
    THEN [c EXCEPT !.stack = Front(c.stack)]
    ELSE c

(***************************************************************************)
(* TRACER: tracer.py, _ensure_instrumented                                 *)
(***************************************************************************)
MaxConstruct == 2

\* A check that takes every decode for unwrapped
already_wrapped_Never(decode) == FALSE

\* getattr(decode, "__wrapped__", None)
already_wrapped(decode) == decode.wraps > 0

\* wrap_decode(method): one more wrapper layer around the same original
wrap_decode(method) == Fn(method.fn, method.wraps + 1)

\* TraceService.__init__ up to the flag test of _ensure_instrumented
InitService(t) ==
    /\ inst[t].pc = "out"
    /\ inst[t].n < MaxConstruct
    /\ thr[t].pc = "idle"
    /\ inst' = IF _INSTRUMENTED
               THEN [inst EXCEPT ![t].svc = TRUE, ![t].n = @ + 1]
               ELSE [inst EXCEPT ![t].pc = "loop", ![t].i = 1, ![t].n = @ + 1]
    /\ UNCHANGED <<nonTrVars, decodeAttr, _INSTRUMENTED, _collector_ctx, collectors, thr>>

\* The loop over the codec classes: read the class's decode, skip it if wrapped
LoopGetattr(t) ==
    /\ inst[t].pc = "loop"
    /\ inst[t].i <= Len(ClassOrder)
    /\ LET decode == getattr_decode(decodeAttr, ClassOrder[inst[t].i])
       IN  inst' = IF already_wrapped(decode)
                   THEN [inst EXCEPT ![t].i = @ + 1]
                   ELSE [inst EXCEPT ![t].pc = "setattr", ![t].decode = decode]
    /\ UNCHANGED <<nonTrVars, decodeAttr, _INSTRUMENTED, _collector_ctx, collectors, thr>>

\* setattr(cls, "decode", wrap_decode(decode))
LoopSetattr(t) ==
    /\ inst[t].pc = "setattr"
    /\ decodeAttr' = [decodeAttr EXCEPT ![ClassOrder[inst[t].i]] = wrap_decode(inst[t].decode)]
    /\ inst' = [inst EXCEPT ![t].pc = "loop", ![t].i = @ + 1, ![t].decode = NoAttr]
    /\ UNCHANGED <<nonTrVars, _INSTRUMENTED, _collector_ctx, collectors, thr>>

\* _INSTRUMENTED = True, and the constructor returns
MarkInstrumented(t) ==
    /\ inst[t].pc = "loop"
    /\ inst[t].i > Len(ClassOrder)
    /\ _INSTRUMENTED' = TRUE
    /\ inst' = [inst EXCEPT ![t].pc = "out", ![t].i = 0, ![t].svc = TRUE, ![t].full = TRUE]
    /\ UNCHANGED <<nonTrVars, decodeAttr, _collector_ctx, collectors, thr>>

\* One uninterrupted pass of the loop from class i on
RECURSIVE InstrumentPass(_, _)
InstrumentPass(attrs, i) ==
    IF i > Len(ClassOrder) THEN attrs
    ELSE LET decode == getattr_decode(attrs, ClassOrder[i])
         IN  InstrumentPass(IF already_wrapped(decode) THEN attrs
                            ELSE [attrs EXCEPT ![ClassOrder[i]] = wrap_decode(decode)],
                            i + 1)

(***************************************************************************)
(* TRACER: tracer.py, the decode wrapper and TraceService.trace            *)
(***************************************************************************)
\* One context slot for every thread
Slot_Shared(t) == "t1"

\* _collector_ctx is a ContextVar: the slot a thread reads and writes is its own
Slot(t) == t

\* A wrapper that hands back the wire form of the value
wrapped_result_Serialized(value) == serialize_asn1_data(value)

\* return value
wrapped_result(value) == value

\* Mutant: the length of the cleaned text is not checked
_hex_to_bytes_Unchecked(hex_data) ==
    IF hex_data.k # "str" THEN Raise("ValueError")
    ELSE fromhex(RemoveSpaces(Remove0x(hex_data.v)))

\* _hex_to_bytes
_hex_to_bytes(hex_data) ==
    IF hex_data.k # "str" THEN Raise("ValueError")
    ELSE LET clean == RemoveSpaces(Remove0x(hex_data.v))
         IN  IF Len(clean) = 0 \/ Len(clean) % 2 # 0 THEN Raise("ValueError")
             ELSE fromhex(clean)

\* A call of obj.decode(decoder): the function getattr finds on the object's
\* class, entered at its outermost layer
Call(obj) ==
    LET a == getattr_decode(decodeAttr, CodecObjs[obj].cls)
    IN  [obj |-> obj, fn |-> a.fn, layer |-> a.wraps, st |-> "enter", frame |-> 0,
         coll |-> "none", depth |-> 0, idx |-> 1, acc |-> EmptyDict]

Running(t) == thr[t].pc = "decoding" /\ thr[t].stack # << >>
Top(t) == Last(thr[t].stack)
read_bits(t) == thr[t].pos * OctetBits

\* trace(): lines 156-167 and the call of compiler.decode
TraceBegin(t) ==
    /\ thr[t].pc = "idle"
    /\ thr[t].req.mode = "trace"
    /\ \E u \in Threads : inst[u].svc
    /\ LET req == thr[t].req
           payload_bytes == _hex_to_bytes(req.hex_data)
       IN  IF \/ req.type_name = ""
              \/ Get(compilers, req.protocol) = {}
              \/ req.type_name \notin CompilerTypes
           THEN /\ thr' = [thr EXCEPT ![t].pc = "done", ![t].result = Raise("ValueError")]
                /\ UNCHANGED <<_collector_ctx, collectors>>
           ELSE IF IsRaise(payload_bytes)
           THEN /\ thr' = [thr EXCEPT ![t].pc = "done", ![t].result = payload_bytes]
                /\ UNCHANGED <<_collector_ctx, collectors>>
           ELSE /\ collectors' = [collectors EXCEPT
                      ![t] = TraceCollector(NumOctets(payload_bytes.v) * OctetBits)]
                /\ _collector_ctx' = [_collector_ctx EXCEPT ![Slot(t)] = t]
                /\ thr' = [thr EXCEPT ![t].pc = "decoding",
                                      ![t].payload = payload_bytes.v,
                                      ![t].token = _collector_ctx[Slot(t)],
                                      ![t].stack = <<Call(req.type_name)>>]
    /\ UNCHANGED <<nonTrVars, decodeAttr, _INSTRUMENTED, inst>>

\* An untraced compiler.decode(type_name, data_bytes, check_constraints=True)
DecodeBegin(t) ==
    /\ thr[t].pc = "idle"
    /\ thr[t].req.mode = "decode"
    /\ thr' = [thr EXCEPT ![t].pc = "decoding",
                          ![t].payload =
                              fromhex(RemoveSpaces(Remove0x(thr[t].req.hex_data.v))).v,
                          ![t].stack = <<Call(thr[t].req.type_name)>>]
    /\ UNCHANGED <<nonTrVars, decodeAttr, _INSTRUMENTED, _collector_ctx, collectors, inst>>

\* wrapped(): lines 115-122, then the call of the wrapped method
WrapperEnter(t) ==
    /\ Running(t)
    /\ Top(t).layer > 0
    /\ Top(t).st = "enter"
    /\ LET collector == _collector_ctx[Slot(t)]
           inner == [Top(t) EXCEPT !.layer = @ - 1]
           n == Len(thr[t].stack)
       IN  IF collector = "none"
           THEN /\ thr' = [thr EXCEPT ![t].stack =
                              Append([@ EXCEPT ![n].st = "passthru"], inner)]
                /\ UNCHANGED collectors
           ELSE /\ collectors' = [collectors EXCEPT
                      ![collector] = push(@, Top(t).obj, read_bits(t), t)]
                /\ thr' = [thr EXCEPT ![t].stack =
                              Append([@ EXCEPT ![n].st = "called",
                                               ![n].frame = collectors[collector].next,
                                               ![n].coll = collector,
                                               ![n].depth = Len(collectors[collector].stack)],
                                     inner)]
    /\ UNCHANGED <<nonTrVars, decodeAttr, _INSTRUMENTED, _collector_ctx, inst>>

\* The codec's own decode of a type: a leaf reads one octet or runs out of
\* data, a constructed type starts on its members
MethodEnter(t) ==
    /\ Running(t)
    /\ Top(t).layer = 0
    /\ Top(t).st = "enter"
    /\ LET n == Len(thr[t].stack)
       IN  IF IsLeaf(Top(t).fn)
           THEN IF thr[t].pos < NumOctets(thr[t].payload)
                THEN thr' = [thr EXCEPT
                        ![t].stack = Front(@),
                        ![t].pos = @ + 1,
                        ![t].ret = LeafValue(Top(t).fn, Octet(thr[t].payload, thr[t].pos + 1))]
                ELSE thr' = [thr EXCEPT ![t].stack = Front(@),
                                        ![t].ret = Raise("DecodeError")]
           ELSE thr' = [thr EXCEPT ![t].stack[n].st = "members"]
    /\ UNCHANGED <<nonTrVars, decodeAttr, _INSTRUMENTED, _collector_ctx, collectors, inst>>

\* A constructed type calls the decode of its next member
MemberCall(t) ==
    /\ Running(t)
    /\ Top(t).layer = 0
    /\ Top(t).st = "members"
    /\ Top(t).idx <= Len(CodecObjs[Top(t).obj].members)
    /\ LET n == Len(thr[t].stack)
       IN  thr' = [thr EXCEPT ![t].stack =
                      Append([@ EXCEPT ![n].st = "await"],
                             Call(CodecObjs[Top(t).obj].members[Top(t).idx]))]
    /\ UNCHANGED <<nonTrVars, decodeAttr, _INSTRUMENTED, _collector_ctx, collectors, inst>>

\* The member's decode came back: keep its value, or let its error through
MemberReturn(t) ==
    /\ Running(t)
    /\ Top(t).layer = 0
    /\ Top(t).st = "await"
    /\ thr[t].ret # NoRet
    /\ LET n == Len(thr[t].stack)
           member == CodecObjs[Top(t).obj].members[Top(t).idx]
       IN  IF IsRaise(thr[t].ret)
           THEN thr' = [thr EXCEPT ![t].stack = Front(@)]
           ELSE thr' = [thr EXCEPT
                   ![t].stack[n] = [@ EXCEPT !.st = "members", !.idx = @ + 1,
                                             !.acc = Put(@, CodecObjs[member].name, thr[t].ret)],
                   ![t].ret = NoRet]
    /\ UNCHANGED <<nonTrVars, decodeAttr, _INSTRUMENTED, _collector_ctx, collectors, inst>>

\* A constructed type has decoded all its members
MethodReturn(t) ==
    /\ Running(t)
    /\ Top(t).layer = 0
    /\ Top(t).st = "members"
    /\ Top(t).idx > Len(CodecObjs[Top(t).obj].members)
    /\ thr' = [thr EXCEPT ![t].stack = Front(@), ![t].ret = PyDict(Top(t).acc)]
    /\ UNCHANGED <<nonTrVars, decodeAttr, _INSTRUMENTED, _collector_ctx, collectors, inst>>

\* wrapped(): lines 117 and 123-130, after the wrapped method came back
WrapperExit(t) ==
    /\ Running(t)
    /\ Top(t).layer > 0
    /\ Top(t).st \in {"passthru", "called"}
    /\ thr[t].ret # NoRet
    /\ IF Top(t).st = "passthru"
       THEN /\ thr' = [thr EXCEPT ![t].stack = Front(@)]
            /\ UNCHANGED collectors
       ELSE IF IsRaise(thr[t].ret)
       THEN /\ collectors' = [collectors EXCEPT
                  ![Top(t).coll] = pop_error(@, Top(t).frame)]
            /\ thr' = [thr EXCEPT ![t].stack = Front(@)]
       ELSE /\ collectors' = [collectors EXCEPT
                  ![Top(t).coll] = pop_success(@, Top(t).frame, thr[t].ret, read_bits(t))]
            /\ thr' = [thr EXCEPT ![t].stack = Front(@),
                                  ![t].ret = wrapped_result(thr[t].ret)]
    /\ UNCHANGED <<nonTrVars, decodeAttr, _INSTRUMENTED, _collector_ctx, inst>>

\* The outcome of compiler.decode once the type's decode came back
DecodeOutcome(t) ==
    IF IsRaise(thr[t].ret) THEN thr[t].ret
    ELSE check_constraints(thr[t].req.type_name, thr[t].ret)

\* Mutant: total_bits is the length of the whole payload
BuildResult_WholePayload(collector, req, payload_bytes, decoded, by) ==
    LET root == IF collector.root # << >> THEN collector.root[1]
                ELSE [TraceNode(req.type_name, req.type_name, 0, by) EXCEPT
                         !.value = serialize_asn1_data(decoded),
                         !.bits = <<0, collector.total_bits>>]
    IN  [k |-> "TraceResult", protocol |-> req.protocol, type_name |-> req.type_name,
         decoded |-> decoded, root |-> root,
         total_bits |-> NumOctets(payload_bytes) * OctetBits]

\* trace(): lines 173-193, on the collector of the call
BuildResult(collector, req, payload_bytes, decoded, by) ==
    LET type_name == req.type_name
        found == IF collector.root # << >> THEN collector.root[1]
                 ELSE [TraceNode(type_name, type_name, 0, by) EXCEPT
                          !.value = serialize_asn1_data(decoded),
                          !.bits = <<0, collector.total_bits>>]
        named == IF found.name = "" THEN [found EXCEPT !.name = type_name] ELSE found
        root == IF named.type_label = "" THEN [named EXCEPT !.type_label = type_name]
                ELSE named
        consumed_bits == IF root.bits # << >> THEN root.bits[2]
                         ELSE NumOctets(payload_bytes) * OctetBits
    IN  [k |-> "TraceResult", protocol |-> req.protocol, type_name |-> type_name,
         decoded |-> decoded, root |-> root, total_bits |-> consumed_bits]

\* trace(): lines 170-193
TraceResult(t, decoded) == BuildResult(collectors[t], thr[t].req, thr[t].payload, decoded, t)

\* Mutant: the finally clause leaves the slot as the call set it
reset_Skipped(ctx, slot, token) == ctx

\* _collector_ctx.reset(token), line 171
reset(ctx, slot, token) == [ctx EXCEPT ![slot] = token]

TraceEnd(t) ==
    /\ thr[t].pc = "decoding"
    /\ thr[t].req.mode = "trace"
    /\ thr[t].stack = << >>
    /\ thr[t].ret # NoRet
    /\ _collector_ctx' = reset(_collector_ctx, Slot(t), thr[t].token)
    /\ thr' = [thr EXCEPT
          ![t].pc = "done",
          ![t].ret = NoRet,
          ![t].result = IF IsRaise(DecodeOutcome(t)) THEN DecodeOutcome(t)
                        ELSE TraceResult(t, DecodeOutcome(t))]
    /\ UNCHANGED <<nonTrVars, decodeAttr, _INSTRUMENTED, collectors, inst>>

\* The untraced compiler.decode returns or raises
DecodeEnd(t) ==
    /\ thr[t].pc = "decoding"
    /\ thr[t].req.mode = "decode"
    /\ thr[t].stack = << >>
    /\ thr[t].ret # NoRet
    /\ thr' = [thr EXCEPT ![t].pc = "done", ![t].ret = NoRet, ![t].result = DecodeOutcome(t)]
    /\ UNCHANGED <<nonTrVars, decodeAttr, _INSTRUMENTED, _collector_ctx, collectors, inst>>

(***************************************************************************)
(* TRACER: requests, initial states and specifications                     *)
(***************************************************************************)
Request(mode, protocol, type_name, hex_data) ==
    [mode |-> mode, protocol |-> protocol, type_name |-> type_name, hex_data |-> hex_data]

\* Payloads of one and two octets, one with a 0x prefix and a constrained value
ValidHex == {PyStr(<<"0", "0">>), PyStr(<<"0", "0", "a", "0">>),
             PyStr(<<"0", "x", "a", "a", "0", "0">>)}
InvalidHex == {PyStr(<< >>), PyStr(<<"0">>), PyStr(<<"z", "z">>), PyNone}

TraceRequests ==
    {Request("trace", "pd", ty, h) : ty \in CompilerTypes, h \in ValidHex}
    \cup {Request("trace", "pd", "Msg", h) : h \in InvalidHex}
    \cup {Request("trace", "pd", ty, PyStr(<<"0", "0">>)) : ty \in {"", "Nope"}}
    \cup {Request("trace", "nope", "Msg", PyStr(<<"0", "0">>))}
DecodeRequests == {Request("decode", "pd", ty, h) : ty \in CompilerTypes, h \in ValidHex}

\* The routers' module-level TraceService(manager) has been constructed: one
\* pass of _ensure_instrumented has run and every thread uses that service
TracerInit ==
    /\ RegQuiet
    /\ conv = ConvIdle
    /\ walk = NoWalk /\ MscIdle
    /\ decodeAttr = InstrumentPass(ImportedDecode, 1)
    /\ _INSTRUMENTED = TRUE
    /\ _collector_ctx = [t \in Threads |-> "none"]
    /\ collectors = [t \in Threads |-> NoCollector]
    /\ inst = [t \in Threads |-> [InstIdle EXCEPT !.svc = TRUE, !.n = MaxConstruct]]
    /\ thr \in [Threads -> {[ThreadIdle EXCEPT !.req = r] :
                              r \in TraceRequests \cup DecodeRequests}]

TracerStep(t) ==
    \/ TraceBegin(t)
    \/ DecodeBegin(t)
    \/ WrapperEnter(t)
    \/ MethodEnter(t)
    \/ MemberCall(t)
    \/ MemberReturn(t)
    \/ MethodReturn(t)
    \/ WrapperExit(t)
    \/ TraceEnd(t)
    \/ DecodeEnd(t)

TracerNext == \E t \in Threads : TracerStep(t)

SpecTracer == TracerInit /\ [][TracerNext]_vars

\* Threads construct TraceService concurrently and repeatedly, starting from
\* the codec as imported, and then trace or decode one two-octet message
InstrumentRequests ==
    {Request(mode, "pd", "Msg", PyStr(<<"0", "0", "a", "0">>)) : mode \in {"trace", "decode"}}

InstrumentInit ==
    /\ RegQuiet
    /\ conv = ConvIdle
    /\ walk = NoWalk /\ MscIdle
    /\ decodeAttr = ImportedDecode
    /\ _INSTRUMENTED = FALSE
    /\ _collector_ctx = [t \in Threads |-> "none"]
    /\ collectors = [t \in Threads |-> NoCollector]
    /\ inst = [t \in Threads |-> InstIdle]
    /\ thr \in [Threads -> {[ThreadIdle EXCEPT !.req = r] : r \in InstrumentRequests}]

InstrumentStep(t) ==
    \/ InitService(t)
    \/ LoopGetattr(t)
    \/ LoopSetattr(t)
    \/ MarkInstrumented(t)

InstrumentNext == \E t \in Threads : InstrumentStep(t) \/ TracerStep(t)

SpecInstrument == InstrumentInit /\ [][InstrumentNext]_vars

\* A thread makes a second call once its first has returned or raised: a
\* plain decode or another trace of a two-octet message
LaterRequests ==
    {Request(mode, "pd", "Msg", PyStr(<<"0", "0", "a", "0">>)) : mode \in {"trace", "decode"}}

RepeatInit ==
    /\ RegQuiet
    /\ conv = ConvIdle
    /\ walk = NoWalk /\ MscIdle
    /\ decodeAttr = InstrumentPass(ImportedDecode, 1)
    /\ _INSTRUMENTED = TRUE
    /\ _collector_ctx = [t \in Threads |-> "none"]
    /\ collectors = [t \in Threads |-> NoCollector]
    /\ inst = [t \in Threads |-> [InstIdle EXCEPT !.svc = TRUE, !.n = MaxConstruct]]
    /\ thr \in [Threads -> {[later |-> l] @@ [ThreadIdle EXCEPT !.req = r] :
                              r \in TraceRequests, l \in LaterRequests \cup {NoRequest}}]

\* The next call of the same thread, in the same context
CallAgain(t) ==
    /\ thr[t].pc = "done"
    /\ thr[t].later # NoRequest
    /\ thr' = [thr EXCEPT ![t] = [later |-> NoRequest, first |-> thr[t].result]
                                   @@ [ThreadIdle EXCEPT !.req = thr[t].later]]
    /\ UNCHANGED <<nonTrVars, decodeAttr, _INSTRUMENTED, _collector_ctx, collectors, inst>>

RepeatNext == \E t \in Threads : TracerStep(t) \/ CallAgain(t)

SpecRepeat == RepeatInit /\ [][RepeatNext]_vars

(***************************************************************************)
(* TRACER: properties                                                      *)
(***************************************************************************)
\* The request passes trace()'s validation and reaches compiler.decode
ReachesDecode(req) ==
    /\ req.type_name \in CompilerTypes
    /\ Get(compilers, req.protocol) # {}
    /\ ~IsRaise(_hex_to_bytes(req.hex_data))

TracedDone(t) == thr[t].pc = "done" /\ thr[t].req.mode = "trace" /\ ReachesDecode(thr[t].req)

\* C5: tracing does not change decoding: trace(...).decoded equals what the
\* plain decode of the same type and payload returns, and when the plain
\* decode raises, trace raises that same error.
C5_TraceNonInterference ==
    \A t \in Threads :
        TracedDone(t) =>
            LET plain == PlainDecode(thr[t].req.type_name,
                                     _hex_to_bytes(thr[t].req.hex_data).v)
            IN  IF IsRaise(plain) THEN thr[t].result = plain
                ELSE /\ thr[t].result.k = "TraceResult"
                     /\ thr[t].result.decoded = plain

\* A trace of Msg returned a tree and a decoded value holding octets
C5_Witness ==
    \E t \in Threads :
        /\ TracedDone(t)
        /\ thr[t].req.type_name = "Msg"
        /\ thr[t].result.k = "TraceResult"
        /\ thr[t].result.decoded.v["hdr"].k = "bytes"
        /\ thr[t].result.root.children # << >>

\* The nodes of a tree, and the nodes a collector holds
RECURSIVE NodesOf(_)
NodesOf(node) ==
    {node} \cup UNION {NodesOf(node.children[i]) : i \in DOMAIN node.children}
CollectorNodes(c) ==
    UNION ({NodesOf(c.stack[i].node) : i \in DOMAIN c.stack}
           \cup {NodesOf(c.root[i]) : i \in DOMAIN c.root})

\* Thread t steps out of a wrapper whose wrapped sub-decode raised under a collector
WrapperRaises(t) ==
    /\ Running(t)
    /\ Top(t).layer > 0
    /\ Top(t).st = "called"
    /\ IsRaise(thr[t].ret)
    /\ thr'[t] # thr[t]

\* C6: when a wrapped sub-decode raises under an active collector, its frame
\* is popped, its node is in no tree and is not the root, the collector stack
\* is as deep as on entry to the call, and the same exception goes to the caller.
C6_ErrorFramePopped ==
    [][\A t \in Threads :
          WrapperRaises(t) =>
              /\ Len(collectors'[Top(t).coll].stack) = Top(t).depth
              /\ \A n \in CollectorNodes(collectors'[Top(t).coll]) : n.id # Top(t).frame
              /\ thr'[t].ret = thr[t].ret
              /\ thr'[t].stack = Front(thr[t].stack)]_vars

\* A member's wrapper has let a DecodeError through to the enclosing SEQUENCE,
\* whose own frame is still on the collector stack
C6_Witness ==
    \E t \in Threads :
        /\ Running(t)
        /\ thr[t].req.mode = "trace"
        /\ IsRaise(thr[t].ret)
        /\ Top(t).layer = 0
        /\ Top(t).st = "await"
        /\ collectors[t].stack # << >>

\* C7: under any interleaving of concurrent or repeated TraceService
\* constructions every codec decode is wrapped exactly once: never more than
\* one layer, one layer on every class once a construction has returned, and
\* in a traced decode exactly one frame-pushing wrapper per sub-decode.
C7_WrappedExactlyOnce ==
    /\ \A c \in Classes : getattr_decode(decodeAttr, c).wraps <= 1
    /\ (\E t \in Threads : inst[t].svc) =>
          \A c \in Classes : getattr_decode(decodeAttr, c).wraps = 1
    /\ \A t \in Threads :
          thr[t].req.mode = "trace" =>
              \A k \in DOMAIN thr[t].stack :
                  thr[t].stack[k].layer = 0 =>
                      /\ k > 1
                      /\ thr[t].stack[k - 1].obj = thr[t].stack[k].obj
                      /\ thr[t].stack[k - 1].layer = 1
                      /\ thr[t].stack[k - 1].frame # 0
                      /\ k > 2 => thr[t].stack[k - 2].layer = 0

\* Both threads ran the whole loop (neither saw the flag set), one constructed
\* a second service, and a traced decode is three sub-decodes deep
C7_Witness ==
    /\ \A t \in Threads : inst[t].full
    /\ \E t \in Threads : inst[t].n = MaxConstruct
    /\ \E t \in Threads :
          /\ thr[t].req.mode = "trace"
          /\ Len(thr[t].stack) = 6
          /\ Len(collectors[t].stack) = 3

\* C8: two concurrent trace() calls never share a collector: every node a
\* call's collector holds, and every node of the tree it returns, was pushed
\* by a sub-decode running in that call's own thread.
C8_CollectorsNotShared ==
    \A t \in Threads :
        /\ \A n \in CollectorNodes(collectors[t]) : n.by = t
        /\ (thr[t].pc = "done" /\ thr[t].result.k = "TraceResult") =>
              \A n \in NodesOf(thr[t].result.root) : n.by = t

\* Both threads are inside trace() at once, each two frames deep
C8_Witness ==
    \A t \in Threads :
        /\ thr[t].req.mode = "trace"
        /\ Running(t)
        /\ Len(collectors[t].stack) >= 2

(***************************************************************************)
(* CONVERTER: the round trip toCodecValue, toWireValue                     *)
(***************************************************************************)
\* Hex texts: hex digits, with or without the 0x prefix, of any length
HexTexts ==
    {t \in Texts :
        LET body == IF startswith0x(t) THEN SubSeq(t, 3, Len(t)) ELSE t
        IN  \A i \in DOMAIN body : body[i] \in HexDigits}

\* Hex texts written in upper case, of odd and even length, bare and prefixed
UpperHexTexts ==
    {<<"A">>, <<"A", "0">>, <<"0", "x", "A", "0">>, <<"a", "A">>, <<"A", " ", "0">>}

\* A CHOICE value in each accepted notation
Notations(tag, payload) ==
    {PyDict([key \in {tag} |-> payload]),
     PyDict([key \in {"$choice", "value"} |->
                IF key = "value" THEN payload ELSE KeyStr(tag)]),
     PyDict([key \in {"choice", "value"} |->
                IF key = "value" THEN payload ELSE KeyStr(tag)])}

\* The schema-valid wire values of each type of the table
RECURSIVE ValidWire(_)
ValidWire(T) ==
    CASE T = "INTEGER" -> {PyInt(1), PyInt(2)}
      [] T = "OCTETS" -> {PyStr(t) : t \in HexTexts}
      [] T = "BITS" -> {PyStr(t) : t \in HexTexts}
                       \cup {PyList(<<PyStr(t), n>>) : t \in HexTexts \cup UpperHexTexts,
                                                       n \in {PyInt(4), PyInt(8)}}
      [] T = "Items" -> {PyList(<<x>>) : x \in ValidWire("OCTETS")}
      [] TypeTable[T].cls = "Choice" ->
            UNION {UNION {Notations(m.name, v) : v \in ValidWire(m.type)} :
                   m \in Range(_get_members(T))}
      [] TypeTable[T].cls = "Sequence" ->
            \* every subset of the members: the absent ones are OPTIONAL left out
            LET names == {m.name : m \in Range(_get_members(T))}
                typeOf(n) == (CHOOSE m \in Range(_get_members(T)) : m.name = n).type
                small(n) == IF typeOf(n) = "OCTETS"
                            THEN {PyStr(<<"a">>), PyStr(<<"0", "x", "a">>)}
                            ELSE IF typeOf(n) = "Pick"
                            THEN Notations("a", PyInt(1))
                            ELSE ValidWire(typeOf(n))
            IN  UNION {{PyDict(f) : f \in {g \in [ks -> UNION {small(n) : n \in ks}] :
                                             \A n \in ks : g[n] \in small(n)}} :
                       ks \in SUBSET names}

RoundTripInputs ==
    UNION {{[data |-> d, type |-> T] : d \in ValidWire(T)} : T \in DOMAIN TypeTable}

RoundTripInit ==
    /\ RegQuiet
    /\ TracerIdle
    /\ walk = NoWalk /\ MscIdle
    /\ \E i \in RoundTripInputs :
          conv = [pc |-> "called", data |-> i.data, type |-> i.type, out |-> PyNone,
                  round |-> 1, first |-> PyNone, given |-> i.data]

\* toWireValue: serialize_asn1_data on what the codec hands back, the codec
\* taken as the identity on codec values
toWireValue ==
    /\ conv.pc = "returned"
    /\ ~IsRaise(conv.out)
    /\ conv' = [conv EXCEPT !.pc = "serialized", !.out = serialize_asn1_data(conv.out),
                            !.first = IF conv.round = 1 THEN serialize_asn1_data(conv.out)
                                      ELSE @]
    /\ UNCHANGED nonConvVars

\* The pair is applied again, to the wire value it produced
ApplyAgain ==
    /\ conv.pc = "serialized"
    /\ conv.round = 1
    /\ conv' = [conv EXCEPT !.pc = "called", !.data = conv.out, !.round = 2]
    /\ UNCHANGED nonConvVars

RoundTripNext == toCodecValue \/ toWireValue \/ ApplyAgain

SpecRoundTrip == RoundTripInit /\ [][RoundTripNext]_vars

\* The normal form of a wire value of type T: lower-case even-length hex (a
\* BIT STRING as a pair of 0x-prefixed hex and bit length), a CHOICE as
\* {"$choice": tag, "value": payload} with a declared tag and a payload in the
\* normal form of that alternative, a SEQUENCE as a map of its present members
RECURSIVE IsNormalForm(_, _)
IsNormalForm(w, T) ==
    LET cls == TypeTable[T].cls
        evenHex(t) == Len(t) % 2 = 0 /\ \A i \in DOMAIN t : t[i] \in HexDigits
    IN  CASE cls = "Integer" -> w.k = "int"
          [] cls = "OctetString" -> w.k = "str" /\ evenHex(w.v)
          [] cls = "BitString" ->
                /\ w.k = "list" /\ Len(w.v) = 2
                /\ w.v[1].k = "str" /\ startswith0x(w.v[1].v)
                /\ evenHex(SubSeq(w.v[1].v, 3, Len(w.v[1].v)))
                /\ w.v[2].k = "int"
          [] cls = "SequenceOf" ->
                w.k = "list" /\ \A i \in DOMAIN w.v : IsNormalForm(w.v[i], TypeTable[T].element_type)
          [] cls = "Choice" ->
                /\ w.k = "dict" /\ DOMAIN w.v = {"$choice", "value"}
                /\ \E m \in Range(_get_members(T)) :
                      /\ w.v["$choice"] = KeyStr(m.name)
                      /\ IsNormalForm(w.v["value"], m.type)
          [] cls = "Sequence" ->
                /\ w.k = "dict"
                /\ \A key \in DOMAIN w.v :
                      \E m \in Range(_get_members(T)) :
                          m.name = key /\ IsNormalForm(w.v[key], m.type)

\* C14: with the codec taken as the identity, toWireValue(toCodecValue(v, T))
\* of a schema-valid wire value v is the normal form of v (lower-case
\* even-length hex, {"$choice": tag, "value": payload} for CHOICE, absent
\* OPTIONAL members left out), and applying the pair again to it leaves it
\* unchanged.
C14_RoundTrip ==
    /\ (conv.pc = "returned") => ~IsRaise(conv.out)
    /\ (conv.pc = "serialized") => IsNormalForm(conv.first, conv.type)
    /\ (conv.pc = "serialized" /\ conv.round = 2) => conv.out = conv.first

(***************************************************************************)
(* TRACER: properties of the trace tree                                    *)
(***************************************************************************)
\* BitRange.length
BitLength(n) == IF n.bits[2] - n.bits[1] > 0 THEN n.bits[2] - n.bits[1] ELSE 0

RECURSIVE SumLengths(_)
SumLengths(nodes) == IF nodes = << >> THEN 0 ELSE BitLength(Head(nodes)) + SumLengths(Tail(nodes))

\* A node whose sub-decode has returned: start <= end, the children lie inside
\* its range, in decode order and without overlap
RangesNest(n) ==
    /\ n.bits[1] <= n.bits[2]
    /\ \A i \in DOMAIN n.children :
          /\ n.bits[1] <= n.children[i].bits[1]
          /\ n.children[i].bits[2] <= n.bits[2]
    /\ \A i, j \in DOMAIN n.children :
          i < j => n.children[i].bits[2] <= n.children[j].bits[1]
    /\ SumLengths(n.children) <= BitLength(n)

\* The trees trace() has returned and the finished nodes collectors hold
FinishedNodes ==
    UNION {{n \in CollectorNodes(collectors[t]) : n.bits # << >>} : t \in Threads}
    \cup UNION {IF thr[t].pc = "done" /\ thr[t].result.k = "TraceResult"
                THEN NodesOf(thr[t].result.root) ELSE {} : t \in Threads}

\* C15: in every trace tree each node's range has start <= end, every child's
\* range lies within its parent's, siblings are in decode order with
\* non-overlapping ranges, and the summed bit lengths of a node's direct
\* children (the root's among them) never exceed the node's own bit length.
C15_RangesNest == \A n \in FinishedNodes : RangesNest(n)

\* C15 witness: a returned tree whose root has two children of positive
\* length, the second with a child of its own
C15_Witness ==
    \E t \in Threads :
        /\ thr[t].pc = "done" /\ thr[t].result.k = "TraceResult"
        /\ LET root == thr[t].result.root
           IN  /\ Len(root.children) = 2
               /\ \A i \in 1..2 : BitLength(root.children[i]) > 0
               /\ root.children[2].children # << >>
               /\ root.children[1].bits[2] = root.children[2].bits[1]

\* Thread t is outside every call
Outside(t) == thr[t].pc \in {"idle", "done"}

\* Thread t takes a step of a plain decode
PlainDecodeStep(t) == thr[t].req.mode = "decode" /\ thr'[t] # thr[t] /\ thr[t].pc # "done"

\* Thread t enters the decode of a trace() call
TraceStarts(t) == thr[t].req.mode = "trace" /\ thr[t].pc = "idle" /\ thr'[t].pc = "decoding"

\* C16: after trace() has returned or raised, whatever the outcome of the
\* decode, the active-collector slot of the calling context holds what it held
\* before the call (nothing); a later plain decode in that context records no
\* trace node in any collector, and a later trace() starts from an empty
\* collector of its own.
C16_SlotRestored ==
    /\ [](\A t \in Threads : Outside(t) => _collector_ctx[Slot(t)] = "none")
    /\ [][\A t \in Threads : PlainDecodeStep(t) => collectors' = collectors]_vars
    /\ [][\A t \in Threads : TraceStarts(t) =>
              /\ thr'[t].token = "none"
              /\ collectors'[_collector_ctx'[Slot(t)]].stack = << >>
              /\ collectors'[_collector_ctx'[Slot(t)]].root = << >>]_vars

\* C16 witness: a plain decode has returned in a context whose earlier trace()
\* raised out of the decode, and the collector of that trace is as it was left
C16_Witness ==
    \E t \in Threads :
        /\ thr[t].pc = "done"
        /\ thr[t].req.mode = "decode"
        /\ "first" \in DOMAIN thr[t]
        /\ thr[t].first = Raise("ConstraintsError")
        /\ ~IsRaise(thr[t].result)
        /\ collectors[t].root # << >>

\* The hex payload of the request is empty or of odd length
EmptyOrOddHex(req) ==
    /\ req.hex_data.k = "str"
    /\ LET digits == RemoveSpaces(Remove0x(req.hex_data.v))
       IN  Len(digits) = 0 \/ Len(digits) % 2 = 1

\* The protocol is not served, or the type name is not declared in it
UnknownProtocolOrType(req) ==
    \/ req.protocol \notin DOMAIN compilers
    \/ req.type_name \notin CompilerTypes

\* C17: trace() called with an empty or odd-length hex payload, an unknown
\* protocol or a type name the protocol does not declare ends with ValueError,
\* on the step that starts it: no collector is created or installed and no
\* decode is entered.
C17_ValidationFailsFirst ==
    [][\A t \in Threads :
          (/\ thr[t].pc = "idle"
           /\ thr[t].req.mode = "trace"
           /\ EmptyOrOddHex(thr[t].req) \/ UnknownProtocolOrType(thr[t].req)
           /\ thr'[t] # thr[t]) =>
              /\ thr'[t].pc = "done"
              /\ thr'[t].result = Raise("ValueError")
              /\ thr'[t].stack = << >>
              /\ _collector_ctx' = _collector_ctx
              /\ collectors' = collectors]_vars

\* C17 witness: both calls have failed validation, one on an empty payload and
\* one on an unknown protocol or type, and no collector exists
C17_Witness ==
    /\ \A t \in Threads : thr[t].pc = "done" /\ thr[t].result = Raise("ValueError")
    /\ \E t \in Threads : thr[t].req.hex_data = PyStr(<< >>)
    /\ \E t \in Threads : UnknownProtocolOrType(thr[t].req)
    /\ \A t \in Threads : collectors[t] = NoCollector /\ _collector_ctx[t] = "none"

\* 8 x payload byte length of thread t's call
PayloadBits(t) == NumOctets(thr[t].payload) * OctetBits

\* trace() of thread t has returned a result
Traced(t) == thr[t].pc = "done" /\ thr[t].req.mode = "trace" /\ thr[t].result.k = "TraceResult"

\* What trace() returns when its collector has recorded no root
WithoutRoot(t) ==
    BuildResult(TraceCollector(PayloadBits(t)), thr[t].req, thr[t].payload,
                thr[t].result.decoded, t)

\* C18: every successful trace() returns a root that has a bit range.  When
\* the collector recorded a root, total_bits is the end of that root's range
\* and is at most 8 x payload byte length; when it recorded none, the root
\* spans [0, 8 x payload byte length) and total_bits is 8 x payload byte length.
C18_RootAndTotalBits ==
    \A t \in Threads :
        Traced(t) =>
            /\ thr[t].result.root.bits # << >>
            /\ collectors[t].root # << >> =>
                  /\ thr[t].result.root.bits = collectors[t].root[1].bits
                  /\ thr[t].result.total_bits = collectors[t].root[1].bits[2]
                  /\ thr[t].result.total_bits <= PayloadBits(t)
            /\ collectors[t].root = << >> => thr[t].result = WithoutRoot(t)
            /\ WithoutRoot(t).root.bits = <<0, PayloadBits(t)>>
            /\ WithoutRoot(t).total_bits = PayloadBits(t)

\* C18 witness: a trace has returned whose root ends before the end of the
\* payload
C18_Witness ==
    \E t \in Threads :
        /\ Traced(t)
        /\ collectors[t].root # << >>
        /\ thr[t].result.total_bits > 0
        /\ thr[t].result.total_bits < PayloadBits(t)

(***************************************************************************)
(* TRACER: the tree against the nesting of the decode calls                *)
(***************************************************************************)
\* The tree the codec's own decode of obj from octet pos on gives when every
\* call that returns is one node: name, range from the cursor at entry to the
\* cursor at return, wire form of the value, the members' nodes in call order
RECURSIVE CallTree(_, _, _), MemberTrees(_, _, _, _, _)
MemberTrees(members, i, payload, pos, acc) ==
    IF i > Len(members) THEN acc
    ELSE MemberTrees(members, i + 1, payload, CodecDecode(members[i], payload, pos).pos,
                     Append(acc, CallTree(members[i], payload, pos)))
CallTree(obj, payload, pos) ==
    LET r == CodecDecode(obj, payload, pos)
    IN  [name |-> NodeName(obj), type_label |-> CodecObjs[obj].type_name,
         value |-> serialize_asn1_data(r.val),
         bits |-> <<pos * OctetBits, r.pos * OctetBits>>,
         children |-> MemberTrees(CodecObjs[obj].members, 1, payload, pos, << >>)]

\* A node without the identity of the object
RECURSIVE NodeFields(_)
NodeFields(n) ==
    [name |-> n.name, type_label |-> n.type_label, value |-> n.value, bits |-> n.bits,
     children |-> [i \in 1..Len(n.children) |-> NodeFields(n.children[i])]]

\* The tracked calls of thread t that have not returned, outermost first
RECURSIVE OpenCalls(_)
OpenCalls(calls) ==
    IF calls = << >> THEN << >>
    ELSE IF Head(calls).st = "called"
    THEN <<NodeName(Head(calls).obj)>> \o OpenCalls(Tail(calls))
    ELSE OpenCalls(Tail(calls))

\* The outermost call of a traced decode has returned a value
OutermostReturned(t) ==
    /\ thr[t].pc = "decoding" /\ thr[t].req.mode = "trace"
    /\ thr[t].stack = << >>
    /\ thr[t].ret # NoRet /\ ~IsRaise(thr[t].ret)

\* C28: under an active collector the tree mirrors the nesting of the
\* successful sub-decode calls: the collector's stack holds the tracked calls
\* that have not returned; each call that returns becomes one node with its
\* name, the range [cursor at entry, cursor at return) and its wire value, the
\* last child of the node of the innermost enclosing call; when the outermost
\* call returns the stack is empty and the root is that call's node, so a
\* decoded SEQUENCE with a required member has a root child named for it.
C28_TreeMirrorsCalls ==
    \A t \in Threads :
        /\ (thr[t].pc = "decoding" /\ thr[t].req.mode = "trace") =>
              [i \in 1..Len(collectors[t].stack) |-> collectors[t].stack[i].node.name]
                  = OpenCalls(thr[t].stack)
        /\ OutermostReturned(t) =>
              /\ collectors[t].stack = << >>
              /\ Len(collectors[t].root) = 1
              /\ NodeFields(collectors[t].root[1])
                    = CallTree(thr[t].req.type_name, thr[t].payload, 0)
        /\ Traced(t) =>
              /\ NodeFields(thr[t].result.root)
                    = CallTree(thr[t].req.type_name, thr[t].payload, 0)
              /\ \A i \in 1..Len(CodecObjs[thr[t].req.type_name].members) :
                    thr[t].result.root.children[i].name =
                        CodecObjs[CodecObjs[thr[t].req.type_name].members[i]].name

\* C28 witness: the trace of a Msg has returned: its root has the children hdr
\* and body, in that order, and body has the child tag
C28_Witness ==
    \E t \in Threads :
        /\ Traced(t)
        /\ thr[t].req.type_name = "Msg"
        /\ [i \in 1..2 |-> thr[t].result.root.children[i].name] = <<"hdr", "body">>
        /\ thr[t].result.root.children[2].children[1].name = "tag"
        /\ thr[t].result.root.children[1].value.k = "str"

(***************************************************************************)
(* TYPE TREE: type_tree.py                                                 *)
(***************************************************************************)
\* The type objects of one compiled type graph: A is a SEQUENCE, B a CHOICE
\* and C an unnamed SEQUENCE OF.  None has a default or constraints.
TypeObjs == {"A", "B", "C"}
TypeAttrs ==
    [A |-> [name |-> "A", kind |-> "Sequence", optional |-> FALSE],
     B |-> [name |-> "b", kind |-> "Choice", optional |-> TRUE],
     C |-> [name |-> "", kind |-> "SequenceOf", optional |-> FALSE]]

MaxMembers == 2
MemberLists == UNION {[1..n -> TypeObjs] : n \in 0..MaxMembers}

\* Every graph over the three objects: A's root_members, B's
\* root_index_to_member in index order, C's element_type
TypeGraphs ==
    {[A |-> [root_members |-> m, root_index_to_member |-> << >>, element_type |-> ""],
      B |-> [root_members |-> << >>, root_index_to_member |-> i, element_type |-> ""],
      C |-> [root_members |-> << >>, root_index_to_member |-> << >>, element_type |-> el]] :
        m \in MemberLists, i \in MemberLists, el \in TypeObjs \cup {""}}

\* lines 17-21 and 23-24: the node of a type object before its children
TypeNode(obj) ==
    [name |-> TypeAttrs[obj].name, type |-> TypeAttrs[obj].kind, kind |-> TypeAttrs[obj].kind,
     optional |-> TypeAttrs[obj].optional, note |-> "", children |-> << >>]

NoNode == [name |-> "", type |-> "", kind |-> "", optional |-> FALSE, note |-> "none",
           children |-> << >>]

\* One activation of _describe_type
Describing(obj) == [obj |-> obj, st |-> "enter", idx |-> 1, children |-> << >>]

\* The three loops of _describe_type, in order, and what each iterates over
Stages == <<"root_members", "root_index_to_member", "element_type">>
StageItems(g, obj, stage) ==
    IF stage = "element_type"
    THEN IF g[obj].element_type # "" THEN <<g[obj].element_type>> ELSE << >>
    ELSE g[obj][stage]

\* Mutant: the type stays in the visited set when its walk is over
remove_Kept(visited, type_id) == visited

\* visited.remove(type_id)
remove(visited, type_id) == visited \ {type_id}

\* build_type_tree(compiled_type) is called on type A of some graph
WalkInit ==
    /\ RegQuiet
    /\ conv = ConvIdle
    /\ TracerIdle
    /\ MscIdle
    /\ \E g \in TypeGraphs :
          walk = [pc |-> "walking", graph |-> g, stack |-> <<Describing("A")>>,
                  visited |-> {}, ret |-> NoNode]

WalkTop == Last(walk.stack)

\* lines 16-40: build the node; a visited type returns it with the note
DescribeEnter ==
    /\ walk.pc = "walking"
    /\ WalkTop.st = "enter"
    /\ LET n == Len(walk.stack)
       IN  IF WalkTop.obj \in walk.visited
           THEN walk' = [walk EXCEPT
                   !.stack = Front(@),
                   !.ret = [TypeNode(WalkTop.obj) EXCEPT !.note = "recursive reference"],
                   !.pc = IF n = 1 THEN "returned" ELSE @]
           ELSE walk' = [walk EXCEPT
                   !.visited = @ \cup {WalkTop.obj},
                   !.stack[n].st = Stages[1]]
    /\ UNCHANGED nonWalkVars

\* lines 44, 49, 53: the recursive call for the next member or element
DescribeChild ==
    /\ walk.pc = "walking"
    /\ WalkTop.st \in Range(Stages)
    /\ walk.ret = NoNode
    /\ LET n == Len(walk.stack)
           items == StageItems(walk.graph, WalkTop.obj, WalkTop.st)
       IN  /\ WalkTop.idx <= Len(items)
           /\ walk' = [walk EXCEPT !.stack = Append(@, Describing(items[WalkTop.idx]))]
    /\ UNCHANGED nonWalkVars

\* lines 44, 49, 53-56: the call came back; the child is appended, an unnamed
\* element is named "element"
ChildDescribed ==
    /\ walk.pc = "walking"
    /\ WalkTop.st \in Range(Stages)
    /\ walk.ret # NoNode
    /\ LET n == Len(walk.stack)
           child == IF WalkTop.st = "element_type" /\ walk.ret.name = ""
                    THEN [walk.ret EXCEPT !.name = "element"]
                    ELSE walk.ret
       IN  walk' = [walk EXCEPT !.stack[n].children = Append(@, child),
                                !.stack[n].idx = @ + 1,
                                !.ret = NoNode]
    /\ UNCHANGED nonWalkVars

\* A loop is over: on to the next one, and after the last to line 58
NextStage ==
    /\ walk.pc = "walking"
    /\ WalkTop.st \in Range(Stages)
    /\ walk.ret = NoNode
    /\ WalkTop.idx > Len(StageItems(walk.graph, WalkTop.obj, WalkTop.st))
    /\ LET n == Len(walk.stack)
           k == CHOOSE j \in DOMAIN Stages : Stages[j] = WalkTop.st
       IN  walk' = [walk EXCEPT !.stack[n].st = IF k < Len(Stages) THEN Stages[k + 1]
                                                ELSE "leave",
                                !.stack[n].idx = 1]
    /\ UNCHANGED nonWalkVars

\* lines 58-63: the type leaves the visited set and its node is returned
DescribeLeave ==
    /\ walk.pc = "walking"
    /\ WalkTop.st = "leave"
    /\ walk' = [walk EXCEPT
          !.visited = remove(@, WalkTop.obj),
          !.stack = Front(@),
          !.ret = [TypeNode(WalkTop.obj) EXCEPT !.children = WalkTop.children],
          !.pc = IF Len(walk.stack) = 1 THEN "returned" ELSE @]
    /\ UNCHANGED nonWalkVars

WalkNext == DescribeEnter \/ DescribeChild \/ ChildDescribed \/ NextStage \/ DescribeLeave

\* The call runs on one thread that is never suspended for ever
SpecTypeTree == WalkInit /\ [][WalkNext]_vars /\ WF_vars(WalkNext)

\* The tree of a type by the path that leads to it: a type on the path is a
\* childless node with the note, any other type is expanded in full
RECURSIVE TreeAlong(_, _, _)
TreeAlong(g, obj, path) ==
    IF obj \in path THEN [TypeNode(obj) EXCEPT !.note = "recursive reference"]
    ELSE LET own == g[obj].root_members \o g[obj].root_index_to_member
             el == StageItems(g, obj, "element_type")
             sub(o) == TreeAlong(g, o, path \cup {obj})
         IN  [TypeNode(obj) EXCEPT !.children =
                [i \in DOMAIN own |-> sub(own[i])]
                \o [i \in DOMAIN el |->
                      IF sub(el[i]).name = "" THEN [sub(el[i]) EXCEPT !.name = "element"]
                      ELSE sub(el[i])]]

\* C19: build_type_tree terminates on every finite type graph, also a
\* self-referential one; the tree it returns shows a type met again on the
\* current recursion path as a childless node noted "recursive reference" and
\* expands in full every other occurrence of a type, also one reached through
\* two sibling branches; and the visited set is empty when the walk returns.
C19_WalkTerminates ==
    /\ <>(walk.pc = "returned")
    /\ [](walk.pc = "returned" =>
            /\ walk.visited = {}
            /\ walk.ret = TreeAlong(walk.graph, "A", {}))

\* C19 witness: the walk has returned a tree in which B is expanded under A in
\* two sibling branches, each ending in a recursive reference
C19_Witness ==
    /\ walk.pc = "returned"
    /\ Len(walk.ret.children) = 2
    /\ walk.ret.children[1] = walk.ret.children[2]
    /\ walk.ret.children[1].children # << >>
    /\ \E i \in DOMAIN walk.ret.children[1].children :
          walk.ret.children[1].children[i].note = "recursive reference"

(***************************************************************************)
(* CONVERTER: BIT STRING wire values                                       *)
(***************************************************************************)
\* The call was given [hex, n] for the BIT STRING type
BitPairGiven ==
    /\ conv.type = "BITS"
    /\ conv.given.k = "list"
    /\ Len(conv.given.v) = 2

\* (bytes of the cleaned hex, n)
CodecPair(hex, n) == PyTuple(<<fromhex(clean_hex(hex.v)), n>>)

\* ["0x" + lower-case hex of the pair's bytes, n]
WirePair(pair) == PyList(<<PyStr(<<"0", "x">> \o pair.v[1].v), pair.v[2]>>)

\* C21: for the BIT STRING type the wire value [hex, n] converts to the pair
\* (bytes of the cleaned hex, n), toWireValue of that pair is
\* ["0x" + lower-case hex, n], and converting that output again yields the
\* same pair.
C21_BitStringPair ==
    LET pair == CodecPair(conv.given.v[1], conv.given.v[2])
    IN  BitPairGiven =>
            /\ pair.v[1].k = "bytes"
            /\ \A i \in DOMAIN pair.v[1].v : pair.v[1].v[i] \in HexDigits
            /\ (conv.pc = "returned") => conv.out = pair
            /\ (conv.pc = "serialized") => conv.out = WirePair(pair)
            /\ (conv.pc = "called" /\ conv.round = 2) => conv.data = WirePair(pair)

\* C21 witness: ["A0", 4] was given, its output ["0xa0", 4] has been converted
\* again and the pair (bytes a0, 4) has come back
C21_Witness ==
    /\ BitPairGiven
    /\ conv.given = PyList(<<PyStr(<<"A", "0">>), PyInt(4)>>)
    /\ conv.pc = "returned"
    /\ conv.round = 2
    /\ conv.data = PyList(<<PyStr(<<"0", "x", "a", "0">>), PyInt(4)>>)
    /\ conv.out = PyTuple(<<PyBytes(<<"a", "0">>), PyInt(4)>>)

(***************************************************************************)
(* MSC: the MscSequence entity (domain/msc/entities.py)                    *)
(***************************************************************************)
\* The registry, converter, tracer and type-tree walk are quiet meanwhile
OthersQuiet == RegQuiet /\ conv = ConvIdle /\ TracerIdle /\ walk = NoWalk

\* _update_tracked_identifiers line 178
tracked_fields == {"ue-Identity", "rrc-TransactionIdentifier", "establishmentCause"}

\* Message data: some of these fields, each with a value
MaxAdds == 3
DataFields == {"ue-Identity", "other"}
DataValues == {1, 2}
MessageData == UNION {[fs -> DataValues] : fs \in SUBSET DataFields}

\* MscMessage: uuid4 ids are fresh, the n-th message created has id n
MscMessage(id, data) == [id |-> id, data |-> data]

\* TrackedIdentifier.add_value (lines 39-61): values[message_index] = value,
\* and a conflict note once the values differ
add_value(identifier, message_index, value) ==
    LET new_values == Put(identifier.values, message_index, value)
        conflicting_values == {new_values[k] : k \in DOMAIN new_values}
        conflict_msg == [name |-> identifier.name, among |-> conflicting_values]
    IN  [name |-> identifier.name,
         values |-> new_values,
         conflicts |-> IF /\ Cardinality(conflicting_values) > 1
                          /\ conflict_msg \notin Range(identifier.conflicts)
                       THEN Append(identifier.conflicts, conflict_msg)
                       ELSE identifier.conflicts]

\* _update_tracked_identifiers (lines 174-194), messages already holding the
\* new message: every tracked field of its data is recorded under its index
_update_tracked_identifiers(tracked, messages, message) ==
    LET message_index == Len(messages) - 1
        fields == tracked_fields \cap DOMAIN message.data
    IN  [name \in (DOMAIN tracked) \cup fields |->
            IF name \notin fields THEN tracked[name]
            ELSE IF name \notin DOMAIN tracked
            THEN [name |-> name,
                  values |-> Put(EmptyDict, message_index, message.data[name]),
                  conflicts |-> << >>]
            ELSE add_value(tracked[name], message_index, message.data[name])]

\* For comparison, a cleanup that does what the docstring says: the index of
\* the removed message is dropped from every identifier and the later indexes
\* move down by one
_cleanup_tracked_identifiers_Reindexed(tracked, messages, message_id, removed) ==
    [name \in {n \in DOMAIN tracked : DOMAIN tracked[n].values # {removed}} |->
        [tracked[name] EXCEPT
            !.values = [k \in {IF j > removed THEN j - 1 ELSE j :
                               j \in (DOMAIN tracked[name].values) \ {removed}} |->
                           IF k >= removed /\ (k + 1) \in DOMAIN tracked[name].values
                           THEN tracked[name].values[k + 1]
                           ELSE tracked[name].values[k]]]]

\* _cleanup_tracked_identifiers (lines 196-205), called after the message was
\* deleted from messages: the id is looked up in the remaining messages, and
\* where an identifier has that index a filtered copy of its values is built
\* and thrown away; no identifier is assigned
_cleanup_tracked_identifiers(tracked, messages, message_id, removed) ==
    LET found == {i \in DOMAIN messages : messages[i].id = message_id}
        message_index == IF found = {} THEN {} ELSE {(CHOOSE i \in found : \A j \in found : i <= j) - 1}
        filtered == [name \in DOMAIN tracked |->
                        [k \in (DOMAIN tracked[name].values) \ message_index |->
                            tracked[name].values[k]]]
    IN  IF message_index # {} THEN tracked ELSE tracked

\* del self.messages[i]
DelAt(q, i) == SubSeq(q, 1, i - 1) \o SubSeq(q, i + 1, Len(q))

SequenceInit ==
    /\ OthersQuiet
    /\ replay = NoReplay /\ repo = NoRepo
    /\ sequence = [pc |-> "ready", messages |-> << >>, tracked_identifiers |-> EmptyDict,
                   created |-> 0,
                   ret |-> [op |-> "", id |-> 0, result |-> FALSE]]

\* add_message (lines 148-152) with a newly created message
add_message ==
    /\ sequence.pc = "ready"
    /\ sequence.created < MaxAdds
    /\ \E data \in MessageData :
          LET message == MscMessage(sequence.created + 1, data)
              messages == Append(sequence.messages, message)
          IN  sequence' =
                [sequence EXCEPT
                    !.messages = messages,
                    !.tracked_identifiers = _update_tracked_identifiers(@, messages, message),
                    !.created = @ + 1,
                    !.ret = [op |-> "add_message", id |-> message.id, result |-> TRUE]]
    /\ UNCHANGED <<nonMscVars, replay, repo>>

\* remove_message (lines 154-162)
remove_message ==
    /\ sequence.pc = "ready"
    /\ \E message_id \in 1..MaxAdds :
          LET found == {i \in DOMAIN sequence.messages : sequence.messages[i].id = message_id}
          IN  IF found = {}
              THEN sequence' = [sequence EXCEPT
                      !.ret = [op |-> "remove_message", id |-> message_id, result |-> FALSE]]
              ELSE LET i == CHOOSE x \in found : \A y \in found : x <= y
                       messages == DelAt(sequence.messages, i)
                   IN  sequence' = [sequence EXCEPT
                          !.messages = messages,
                          !.tracked_identifiers =
                              _cleanup_tracked_identifiers(@, messages, message_id, i - 1),
                          !.ret = [op |-> "remove_message", id |-> message_id,
                                   result |-> TRUE]]
    /\ UNCHANGED <<nonMscVars, replay, repo>>

SequenceNext == add_message \/ remove_message

SpecSequence == SequenceInit /\ [][SequenceNext]_vars

\* Every index key of every tracked identifier refers to a message of the
\* sequence whose data carries the recorded value
TrackingRefersToMessages ==
    \A name \in DOMAIN sequence.tracked_identifiers :
        \A k \in DOMAIN sequence.tracked_identifiers[name].values :
            /\ (k + 1) \in DOMAIN sequence.messages
            /\ name \in DOMAIN sequence.messages[k + 1].data
            /\ sequence.messages[k + 1].data[name] =
                  sequence.tracked_identifiers[name].values[k]

\* C27: remove_message removes the message and cleans up tracking: after
\* remove_message(id) returned True no tracked identifier holds a value
\* recorded for the removed message, and after any add_message and
\* remove_message calls every index key of every tracked identifier refers to
\* a message currently in the sequence whose data carries that value.
C27_TrackingCleaned ==
    /\ (sequence.ret.op = "remove_message" /\ sequence.ret.result) =>
          /\ \A i \in DOMAIN sequence.messages : sequence.messages[i].id # sequence.ret.id
          /\ \A name \in DOMAIN sequence.tracked_identifiers :
                Cardinality(DOMAIN sequence.tracked_identifiers[name].values) <=
                    Cardinality({i \in DOMAIN sequence.messages :
                                    name \in DOMAIN sequence.messages[i].data})
    /\ TrackingRefersToMessages

(***************************************************************************)
(* MSC: the file-based MscRepository (infrastructure/msc/msc_repository.py)*)
(***************************************************************************)
\* None and the empty string are both written "": the code tests them alike
\* ("if protocol:", "if session_id:")
None == ""
MaxRepoOps == 4
SequenceIds == {1, 2}
SequenceNames == {"n1", "n2"}
ProtocolNames == {None, "rrc"}
SessionIds == {None, "A", "B"}

\* _get_versioned_file_path with user_id None (lines 374-397): directory
\* sessions/<session>/<protocol>, sessions/<session>, <protocol> or the
\* storage root, and file <name>_<id[:8]>_v<version>.json
_get_versioned_file_path(sequence_id, sequence_name, protocol, session_id) ==
    [session |-> session_id, protocol |-> protocol, name |-> sequence_name, id |-> sequence_id]

\* _serialize_sequence (lines 170-218): rev stands for the messages, tracked
\* identifiers, validation results and timestamps saved with the sequence
_serialize_sequence(seq) ==
    [id |-> seq.id, name |-> seq.name, protocol |-> seq.protocol,
     session_id |-> seq.session_id, rev |-> seq.rev]

\* _find_sequence_file (lines 152-168): the indexed path when its file
\* exists; no legacy <id>.json lies in the storage root
_find_sequence_file(files, index, sequence_id) ==
    {index[i] : i \in {j \in DOMAIN index : j = sequence_id /\ index[j] \in DOMAIN files}}

\* The index after _find_sequence_file: an entry whose file is gone is removed
IndexAfterFind(files, index, sequence_id) ==
    [i \in {j \in DOMAIN index : j = sequence_id => index[j] \in DOMAIN files} |-> index[i]]

\* get_sequence (lines 313-357): {} for None; files written by this version
\* need no migration
get_sequence(files, index, sequence_id) ==
    {files[p] : p \in _find_sequence_file(files, index, sequence_id)}

\* For comparison, a search that also looks into the session directory itself,
\* where a sequence without protocol is written
Searched_SessionDirToo(p, protocol, session_id) ==
    IF session_id # None
    THEN p.session = session_id /\ (protocol # None => p.protocol = protocol)
    ELSE IF protocol # None THEN p.protocol = protocol
    ELSE TRUE

\* The directories list_sequences searches (lines 465-510): with a session,
\* its protocol subdirectories; without, the root and its subdirectories
\* other than sessions, and the protocol subdirectories of every session
Searched(p, protocol, session_id) ==
    IF session_id # None
    THEN p.session = session_id /\ p.protocol # None /\ (protocol # None => p.protocol = protocol)
    ELSE IF protocol # None THEN p.protocol = protocol
    ELSE p.session = None \/ p.protocol # None

\* list_sequences (lines 458-558): one entry per file found that passes the
\* protocol and session filters (the order, by updated_at, is left out)
list_sequences(files, protocol, session_id) ==
    {files[p] : p \in {q \in DOMAIN files :
        /\ Searched(q, protocol, session_id)
        /\ protocol = None \/ files[q].protocol = protocol
        /\ session_id = None \/
              (IF files[q].session_id # None THEN files[q].session_id ELSE q.session)
                  = session_id}}

RepoInit ==
    /\ OthersQuiet
    /\ sequence = NoSequence /\ replay = NoReplay
    /\ repo = [pc |-> "ready", files |-> EmptyDict, _index |-> EmptyDict, ops |-> 0,
               created |-> EmptyDict, saved |-> EmptyDict, deleted |-> {},
               only_created |-> TRUE,
               ret |-> [op |-> "", id |-> 0, result |-> FALSE]]

\* The file written and indexed by create_sequence and update_sequence
Save(seq) ==
    LET sequence_file == _get_versioned_file_path(seq.id, seq.name, seq.protocol, seq.session_id)
    IN  [files |-> Put(repo.files, sequence_file, _serialize_sequence(seq)),
         _index |-> Put(repo._index, seq.id, sequence_file)]

\* create_sequence (lines 290-311) of a new MscSequence (a new uuid4 id)
create_sequence ==
    /\ repo.pc = "ready"
    /\ repo.ops < MaxRepoOps
    /\ \E id \in SequenceIds, name \in SequenceNames, protocol \in ProtocolNames,
          session_id \in SessionIds :
          /\ id \notin DOMAIN repo.created
          /\ \A j \in SequenceIds : j < id => j \in DOMAIN repo.created
          /\ LET seq == [id |-> id, name |-> name, protocol |-> protocol,
                         session_id |-> session_id, rev |-> repo.ops + 1]
             IN  repo' = [repo EXCEPT
                    !.files = Save(seq).files,
                    !._index = Save(seq)._index,
                    !.ops = @ + 1,
                    !.created = Put(@, id, session_id),
                    !.saved = Put(@, id, _serialize_sequence(seq)),
                    !.ret = [op |-> "create_sequence", id |-> id, result |-> TRUE]]
    /\ UNCHANGED <<nonMscVars, sequence, replay>>

\* update_sequence (lines 406-438): ValueError when get_sequence finds
\* nothing; else the sequence is written under the path of its present name
\* and protocol and the index is moved there; the old file is left in place
update_sequence ==
    /\ repo.pc = "ready"
    /\ repo.ops < MaxRepoOps
    /\ \E id \in DOMAIN repo.created, name \in SequenceNames, protocol \in ProtocolNames :
          LET existing == get_sequence(repo.files, repo._index, id)
              seq == [id |-> id, name |-> name, protocol |-> protocol,
                      session_id |-> repo.created[id], rev |-> repo.ops + 1]
          IN  IF existing = {}
              THEN repo' = [repo EXCEPT
                      !._index = IndexAfterFind(repo.files, @, id),
                      !.ops = @ + 1,
                      !.only_created = FALSE,
                      !.ret = [op |-> "update_sequence", id |-> id, result |-> FALSE]]
              ELSE repo' = [repo EXCEPT
                      !.files = Save(seq).files,
                      !._index = Save(seq)._index,
                      !.ops = @ + 1,
                      !.saved = Put(@, id, _serialize_sequence(seq)),
                      !.only_created = FALSE,
                      !.ret = [op |-> "update_sequence", id |-> id, result |-> TRUE]]
    /\ UNCHANGED <<nonMscVars, sequence, replay>>

\* delete_sequence (lines 440-456): os.remove of the indexed file only
delete_sequence ==
    /\ repo.pc = "ready"
    /\ repo.ops < MaxRepoOps
    /\ \E id \in SequenceIds :
          LET sequence_file == _find_sequence_file(repo.files, repo._index, id)
          IN  IF sequence_file = {}
              THEN repo' = [repo EXCEPT
                      !._index = IndexAfterFind(repo.files, @, id),
                      !.ops = @ + 1,
                      !.only_created = FALSE,
                      !.ret = [op |-> "delete_sequence", id |-> id, result |-> FALSE]]
              ELSE repo' = [repo EXCEPT
                      !.files = [p \in (DOMAIN @) \ sequence_file |-> @[p]],
                      !._index = [i \in (DOMAIN @) \ {id} |-> @[i]],
                      !.ops = @ + 1,
                      !.deleted = @ \cup {id},
                      !.only_created = FALSE,
                      !.ret = [op |-> "delete_sequence", id |-> id, result |-> TRUE]]
    /\ UNCHANGED <<nonMscVars, sequence, replay>>

RepoNext == create_sequence \/ update_sequence \/ delete_sequence

SpecRepository == RepoInit /\ [][RepoNext]_vars

\* The ids list_sequences returns for a session
ListedIds(session_id) == {s.id : s \in list_sequences(repo.files, None, session_id)}

\* C26: sequences are isolated by session: after any creations in sessions A
\* and B, list_sequences(session_id=A) holds every sequence created in A and
\* none created in B, and the other way round.
C26_SessionIsolation ==
    (repo.pc = "ready" /\ repo.only_created) =>
        \A session_id \in {"A", "B"} :
            ListedIds(session_id) =
                {id \in DOMAIN repo.created : repo.created[id] = session_id}

\* C30: after any create_sequence, update_sequence (renames and protocol
\* changes included) and delete_sequence calls, list_sequences() returns each
\* stored id at most once, with its latest saved contents, and no id for
\* which delete_sequence returned True; get_sequence of a deleted id is None.
C30_ListMatchesStore ==
    repo.pc = "ready" =>
        LET listed == list_sequences(repo.files, None, None)
        IN  /\ \A s, t \in listed : s.id = t.id => s = t
            /\ \A s \in listed : s = repo.saved[s.id]
            /\ \A s \in listed : s.id \notin repo.deleted
            /\ \A id \in repo.deleted : get_sequence(repo.files, repo._index, id) = {}

(***************************************************************************)
(* MSC: ValidateSequenceUseCase over RRCStateMachine                       *)
(* (application/msc/use_cases.py, infrastructure/msc/rrc_state_machine.py) *)
(***************************************************************************)
RRCState == {"IDLE", "CONNECTING", "CONNECTED", "RECONFIGURING", "MEASURING", "RELEASING",
             "INACTIVE", "SUSPENDED"}

\* The message types replayed here; "Other" is a type the machine does not know
MessageTypes == {"RRCConnectionRequest", "RRCConnectionSetup", "RRCConnectionSetupComplete",
                 "RRCReconfiguration", "RRCConnectionRelease", "MeasurementReport", "Other"}

\* What the machine reads from message data: suspendConfig, and a reportTrigger
\* of reconfiguration or handover
MessageFlags == {"", "suspendConfig", "handover"}
MaxMessages == 3
MessageLists ==
    UNION {[1..n -> [type_name : MessageTypes, data : MessageFlags]] : n \in 0..MaxMessages}

\* self._transitions (lines 22-112), the rows of these message types:
\* <<message type, state>> -> next state
_transitions ==
    <<"RRCConnectionRequest", "IDLE">> :> "CONNECTING"
    @@ <<"RRCConnectionRequest", "SUSPENDED">> :> "CONNECTING"
    @@ <<"RRCConnectionSetup", "CONNECTING">> :> "CONNECTED"
    @@ <<"RRCConnectionSetupComplete", "CONNECTED">> :> "CONNECTED"
    @@ <<"RRCReconfiguration", "CONNECTED">> :> "RECONFIGURING"
    @@ <<"MeasurementReport", "MEASURING">> :> "CONNECTED"
    @@ <<"MeasurementReport", "CONNECTED">> :> "CONNECTED"
    @@ <<"RRCConnectionRelease", "CONNECTED">> :> "INACTIVE"
    @@ <<"RRCConnectionRelease", "RECONFIGURING">> :> "INACTIVE"

\* For comparison, a replay that starts from the protocol's initial state
get_current_state_Initial(messages) == "IDLE"

\* get_current_state (lines 148-191): IDLE for no messages, else a guess from
\* the type of the last message
get_current_state(messages) ==
    IF messages = << >> THEN "IDLE"
    ELSE LET message_type == messages[Len(messages)].type_name
         IN  CASE message_type = "RRCConnectionSetupComplete" -> "CONNECTED"
               [] message_type = "RRCConnectionRelease" -> "INACTIVE"
               [] message_type = "RRCReconfiguration" -> "RECONFIGURING"
               [] message_type = "MeasurementReport" -> "CONNECTED"
               [] message_type = "RRCConnectionRequest" -> "CONNECTING"
               [] OTHER -> "CONNECTED"

\* _get_rrc_transition_rules(...)['valid'] (lines 281-364)
_get_rrc_transition_rules(current_state, message_type) ==
    CASE current_state = "IDLE" ->
            message_type \in {"RRCConnectionRequest", "RRCConnectionResumeRequest"}
      [] current_state = "CONNECTING" ->
            message_type \in {"RRCConnectionSetup", "RRCConnectionReject", "RRCConnectionResume",
                              "RRCConnectionSetupComplete"}
      [] current_state = "CONNECTED" ->
            message_type \in {"RRCConnectionReconfiguration", "RRCReconfiguration",
                              "MeasurementReport", "SecurityModeCommand", "SecurityModeComplete",
                              "UECapabilityEnquiry", "UECapabilityInformation",
                              "RRCConnectionReestablishmentRequest", "RRCConnectionRelease"}
      [] current_state = "RECONFIGURING" ->
            message_type \in {"RRCReconfigurationComplete", "RRCConnectionReconfigurationComplete"}
      [] current_state = "MEASURING" -> message_type = "MeasurementReport"
      [] current_state = "INACTIVE" ->
            message_type \in {"RRCConnectionResumeRequest", "RRCConnectionRelease"}
      [] current_state = "SUSPENDED" -> message_type = "RRCConnectionResumeRequest"
      [] current_state = "RELEASING" ->
            message_type \in {"RRCConnectionRelease", "RRCConnectionReleaseComplete"}

\* is_valid_transition (lines 193-217)
is_valid_transition(current_state, message_type, message_data) ==
    \/ <<message_type, current_state>> \in DOMAIN _transitions
    \/ _get_rrc_transition_rules(current_state, message_type)

\* _get_rrc_next_state (lines 366-424)
_get_rrc_next_state(current_state, message_type, message_data) ==
    CASE message_type = "RRCConnectionRequest" -> "CONNECTING"
      [] message_type = "RRCConnectionSetup" -> "CONNECTED"
      [] message_type = "RRCConnectionSetupComplete" -> "CONNECTED"
      [] message_type = "RRCReconfiguration" -> "RECONFIGURING"
      [] message_type = "MeasurementReport" ->
            IF message_data = "handover" THEN "RECONFIGURING" ELSE "CONNECTED"
      [] message_type = "RRCConnectionRelease" ->
            IF message_data = "suspendConfig" THEN "SUSPENDED" ELSE "INACTIVE"
      [] OTHER -> current_state

\* get_next_state (lines 219-239)
get_next_state(current_state, message_type, message_data) ==
    IF <<message_type, current_state>> \in DOMAIN _transitions
    THEN _transitions[<<message_type, current_state>>]
    ELSE _get_rrc_next_state(current_state, message_type, message_data)

\* validate_sequence_transitions (lines 241-279): the indexes of its
\* INVALID_RRC_TRANSITION results, replaying messages i.. from current_state
RECURSIVE validate_sequence_transitions(_, _, _)
validate_sequence_transitions(messages, i, current_state) ==
    IF i > Len(messages) THEN {}
    ELSE (IF is_valid_transition(current_state, messages[i].type_name, messages[i].data)
          THEN {} ELSE {i - 1})
         \cup validate_sequence_transitions(
                 messages, i + 1,
                 get_next_state(current_state, messages[i].type_name, messages[i].data))

ReplayInit ==
    /\ OthersQuiet
    /\ sequence = NoSequence /\ repo = NoRepo
    /\ \E messages \in MessageLists :
          replay = [pc |-> "called", messages |-> messages, i |-> 0, current_state |-> "",
                    results |-> {}]

\* execute lines 111-114: the validator has run (its results are not
\* transition results), then the state to start from is asked of the machine
ReplayBegin ==
    /\ replay.pc = "called"
    /\ replay' = [replay EXCEPT !.pc = "loop", !.i = 1,
                                !.current_state = get_current_state(replay.messages)]
    /\ UNCHANGED <<nonMscVars, sequence, repo>>

\* execute lines 115-133: one round of the loop over the messages
ReplayMessage ==
    /\ replay.pc = "loop"
    /\ replay.i <= Len(replay.messages)
    /\ LET message == replay.messages[replay.i]
       IN  replay' = [replay EXCEPT
              !.results = IF is_valid_transition(replay.current_state, message.type_name,
                                                 message.data)
                          THEN @
                          ELSE @ \cup {[code |-> "INVALID_TRANSITION",
                                        message_index |-> replay.i - 1]},
              !.current_state = get_next_state(replay.current_state, message.type_name,
                                               message.data),
              !.i = @ + 1]
    /\ UNCHANGED <<nonMscVars, sequence, repo>>

\* execute lines 135-136
ReplayEnd ==
    /\ replay.pc = "loop"
    /\ replay.i > Len(replay.messages)
    /\ replay' = [replay EXCEPT !.pc = "returned"]
    /\ UNCHANGED <<nonMscVars, sequence, repo>>

ReplayNext == ReplayBegin \/ ReplayMessage \/ ReplayEnd

SpecValidate == ReplayInit /\ [][ReplayNext]_vars

\* C29: execute replays the messages from the protocol's initial state: it
\* reports an invalid transition at message index i exactly when
\* validate_sequence_transitions does, so the valid path RRCConnectionRequest,
\* RRCConnectionSetup, RRCConnectionSetupComplete from IDLE gives no
\* INVALID_TRANSITION result.
C29_ReplayFromInitialState ==
    replay.pc = "returned" =>
        {r.message_index : r \in replay.results} =
            validate_sequence_transitions(replay.messages, 1, "IDLE")

====
